---------------------------- MODULE Spec2Model ----------------------------
(***************************************************************************)
(* astro-shield: the in-page gate protection of                            *)
(*   core/src/scripts/init_gate_protection.js   (page guard)               *)
(*   core/src/scripts/runtime_honeypots.js      (honeypot engine)          *)
(* Strings are sequences of one-character strings.  A stored text is       *)
(* either the JSON serialisation of a JavaScript value (k = "json") or a   *)
(* text that is not valid JSON (k = "text"); a missing item is k = "null". *)
(***************************************************************************)
EXTENDS Integers, Sequences, FiniteSets, TLC

VARIABLES
    injected,           \* the configuration the build injects into every page
    windowConfig,       \* window.__ASTRO_SHIELD_CONFIG__
    initCfg,            \* GATE_PATH, PRODUCT_NAMESPACE, ... of the init script
    rtCfg,              \* GATE_PATH, PRODUCT_NAMESPACE, ... of the runtime script
    ls,                 \* localStorage   : key -> stored text
    ss,                 \* sessionStorage : key -> stored text
    fail,               \* which backend calls throw during the next handler
    now,                \* Date.now()
    loc,                \* location: pathname and search
    visibility,         \* document.documentElement.style.visibility
    redirectScheduled,  \* init script: let redirectScheduled
    redirectTarget,     \* init script: let redirectTarget
    redirectTimers,     \* callbacks of scheduleRedirect pending in setTimeout
    navigated,          \* argument of the last location.replace
    ev,                 \* the last handler that ran, with what it returned
    lastTrip,           \* Date.now() of the last trap that fired, -1 if none
    trips,              \* Date.now() of every trap that has fired, in order
    engine,             \* the runtime script: TIME_BUCKET, controllers, timers
    gate                \* the gate page: status, solver, timers, configuration

vars == <<injected, windowConfig, initCfg, rtCfg, ls, ss, fail, now, loc, visibility,
          redirectScheduled, redirectTarget, redirectTimers, navigated, ev,
          lastTrip, trips, engine, gate>>

----------------------------------------------------------------------------
(* Bounds of the model *)

MaxLen == 3          \* longest raw configuration string that is enumerated
MaxTicks == 1        \* millisecond steps the clock takes beside a 10 minute step
MaxInits == 3        \* calls of initRuntimeHoneypots per document
MaxEvents == 2       \* pointer events and key presses that are counted
MaxClicks == 5       \* clicks one initialisation handles
MaxClickSpan == 300  \* milliseconds over which clicks are followed
MaxIdleSpan == 240000 \* milliseconds over which idle timers are followed
MaxTrips == 2        \* traps that fire in one behaviour
MaxAttempts == 2     \* solves the gate starts in one document
MaxViolations == 4   \* violations the effective difficulty is computed for
MaxGateSpan == 1800  \* milliseconds over which the gate is followed

(* Program constants *)

TRIP_TTL_MS == 600000   \* 10 * 60 * 1000
IDLE_TIMEOUT_MS == 120000 \* timeoutMs = 120000
TIME_BUCKET_MS == 600000 \* 10 * 60 * 1000 of TIME_BUCKET
TOKEN_TTL_MS == 1800000 \* tokenTtlMinutes: 30
T0 == 1000000           \* Date.now() when the behaviour starts

----------------------------------------------------------------------------
(* Strings *)

Lower == {"a","b","c","d","e","f","g","h","i","j","k","l","m",
          "n","o","p","q","r","s","t","u","v","w","x","y","z"}
Digit == {"0","1","2","3","4","5","6","7","8","9"}

\* The characters the model's raw inputs are built from: a letter, an upper
\* case letter, an allowed punctuation mark, the path separator, white space
\* and one character outside every class.
InputChar == {"a", "Z", "-", "/", " ", "!"}

IsSpace(c) == c = " "

\* String.prototype.toLowerCase, character by character.
LowerChar(c) == IF c = "Z" THEN "z" ELSE c

toLowerCase(s) == [i \in 1..Len(s) |-> LowerChar(s[i])]

RECURSIVE trimStart(_)
trimStart(s) ==
    IF s # <<>> /\ IsSpace(Head(s)) THEN trimStart(Tail(s)) ELSE s

RECURSIVE trimEnd(_)
trimEnd(s) ==
    IF s # <<>> /\ IsSpace(s[Len(s)])
    THEN trimEnd(SubSeq(s, 1, Len(s) - 1))
    ELSE s

\* String.prototype.trim
trim(s) == trimEnd(trimStart(s))

\* value.replace(/[^a-z0-9_-]/g, "")
stripDisallowed(s) ==
    SelectSeq(s, LAMBDA c : c \in Lower \cup Digit \cup {"_", "-"})

startsWith(s, p) == Len(s) >= Len(p) /\ SubSeq(s, 1, Len(p)) = p

includes(s, c) == \E i \in 1..Len(s) : s[i] = c

\* String(n) of a non-negative integer
RECURSIVE numberToString(_)
numberToString(n) ==
    IF n < 10 THEN <<ToString(n)>>
    ELSE numberToString(n \div 10) \o <<ToString(n % 10)>>

\* The characters with the code units 32 to 126, in order; the three that a
\* string of this module cannot hold are named, and occur in no seed.
Ascii ==
    <<" ", "!", "quote", "#", "$", "%", "&", "'", "(", ")", "*", "+", ",", "-",
      ".", "/", "0", "1", "2", "3", "4", "5", "6", "7", "8", "9", ":", ";",
      "<", "=", ">", "?", "@", "A", "B", "C", "D", "E", "F", "G", "H", "I",
      "J", "K", "L", "M", "N", "O", "P", "Q", "R", "S", "T", "U", "V", "W",
      "X", "Y", "Z", "[", "backslash", "]", "^", "_", "backtick", "a", "b", "c", "d", "e",
      "f", "g", "h", "i", "j", "k", "l", "m", "n", "o", "p", "q", "r", "s",
      "t", "u", "v", "w", "x", "y", "z", "{", "|", "}", "~">>

\* c.charCodeAt(0)
charCodeAt(c) == 31 + CHOOSE i \in 1..Len(Ascii) : Ascii[i] = c

\* arr.join(sep) of an array of strings
RECURSIVE join(_, _)
join(arr, sep) ==
    IF arr = <<>> THEN <<>>
    ELSE IF Len(arr) = 1 THEN arr[1]
    ELSE arr[1] \o sep \o join(Tail(arr), sep)

----------------------------------------------------------------------------
(* JavaScript values *)

Undefined == [t |-> "undefined"]
JNull == [t |-> "null"]
JBool(b) == [t |-> "boolean", b |-> b]
JNum(n) == [t |-> "number", nan |-> FALSE, n |-> n]
NaN == [t |-> "number", nan |-> TRUE, n |-> 0]
JStr(s) == [t |-> "string", s |-> s]
JObj(f) == [t |-> "object", f |-> f]

isString(v) == v.t = "string"

\* ToBoolean
Truthy(v) ==
    CASE v.t = "undefined" -> FALSE
      [] v.t = "null" -> FALSE
      [] v.t = "boolean" -> v.b
      [] v.t = "number" -> ~v.nan /\ v.n # 0
      [] v.t = "string" -> v.s # <<>>
      [] OTHER -> TRUE

RECURSIVE digitsValue(_)
digitsValue(s) ==
    IF s = <<>> THEN 0
    ELSE 10 * digitsValue(SubSeq(s, 1, Len(s) - 1))
         + (CHOOSE d \in 0..9 : ToString(d) = s[Len(s)])

allDigits(s) == s # <<>> /\ \A i \in 1..Len(s) : s[i] \in Digit

\* Number(text): white space trimmed, "" is 0, an optional sign and decimal
\* digits, anything else NaN.
stringToNumber(s) ==
    LET t == trim(s) IN
    IF t = <<>> THEN JNum(0)
    ELSE IF allDigits(t) THEN JNum(digitsValue(t))
    ELSE IF t[1] = "+" /\ allDigits(Tail(t)) THEN JNum(digitsValue(Tail(t)))
    ELSE IF t[1] = "-" /\ allDigits(Tail(t)) THEN JNum(0 - digitsValue(Tail(t)))
    ELSE NaN

\* ToNumber of a value, as the relational operators apply it.
ToNumber(v) ==
    CASE v.t = "number" -> v
      [] v.t = "string" -> stringToNumber(v.s)
      [] v.t = "boolean" -> JNum(IF v.b THEN 1 ELSE 0)
      [] v.t = "null" -> JNum(0)
      [] OTHER -> NaN

\* a > b for a value a and a number b
GreaterThan(a, b) ==
    LET x == ToNumber(a) IN ~x.nan /\ x.n > b

\* value.property: undefined on anything that is not an object holding it
Prop(v, name) ==
    IF v.t = "object" /\ name \in DOMAIN v.f THEN v.f[name] ELSE Undefined

----------------------------------------------------------------------------
(* Configuration sanitizers *)

DEFAULT_GATE_PATH == <<"/", "g", "a", "t", "e">>
DEFAULT_NAMESPACE == <<"a", "s">>
DEFAULT_HONEYPOT_PREFIX == <<"h", "p">>
DEFAULT_DECOY_PREFIX == <<"d", "c">>

\* init_gate_protection.js and runtime_honeypots.js: sanitizeNamespace
sanitizeNamespace(value, fallback) ==
    IF ~isString(value) THEN fallback
    ELSE LET normalized == stripDisallowed(toLowerCase(trim(value.s)))
         IN IF normalized # <<>> THEN normalized ELSE fallback

\* init_gate_protection.js: sanitizePrefix
sanitizePrefix(value, fallback) ==
    IF ~isString(value) THEN fallback
    ELSE LET trimmed == toLowerCase(trim(value.s)) IN
         IF trimmed = <<>> THEN fallback
         ELSE LET normalized == stripDisallowed(trimmed)
              IN IF normalized # <<>> THEN normalized ELSE fallback

\* runtime_honeypots.js: sanitizePrefix
runtimeSanitizePrefix(value, fallback) ==
    IF ~isString(value) THEN fallback
    ELSE LET trimmed == trim(value.s) IN
         IF trimmed = <<>> THEN <<>>
         ELSE stripDisallowed(toLowerCase(trimmed))

\* init_gate_protection.js and runtime_honeypots.js: sanitizeGatePath
sanitizeGatePath(value, fallback) ==
    IF ~isString(value) THEN fallback
    ELSE LET trimmed == trim(value.s) IN
         IF trimmed = <<>> THEN fallback
         ELSE IF startsWith(trimmed, <<"/">>) THEN trimmed
         ELSE <<"/">> \o trimmed

----------------------------------------------------------------------------
(* Stored texts and the two Web Storage backends *)

Null == [k |-> "null"]                  \* null: no item, no target
JsonText(v) == [k |-> "json", v |-> v]  \* the text JSON.stringify(v)
PlainText(s) == [k |-> "text", s |-> s] \* a text JSON.parse rejects
Thrown == [k |-> "throw"]               \* the call threw

TOKEN_KEY == "gate_token_key_v1"
SHIELD_STORAGE_KEYS ==
    [token |-> TOKEN_KEY, honeypotTripped |-> "hp_tripped",
     honeypotClicked |-> "hp_clicked", honeypotFocus |-> "hp_focus",
     honeypotReason |-> "hp_reason"]
CONFIG_STORAGE_KEY == "__ASTRO_SHIELD_CONFIG_OVERRIDES__"

Keys == {TOKEN_KEY, "hp_tripped", "hp_clicked", "hp_focus", "hp_reason",
         CONFIG_STORAGE_KEY}

EmptyStorage == [key \in Keys |-> Null]

\* Which calls of which backend throw: l = localStorage, s = sessionStorage.
FailCalls == {"lget", "lset", "lrem", "sget", "sset", "srem"}
NoFailure ==
    [lget |-> FALSE, lset |-> FALSE, lrem |-> FALSE,
     sget |-> FALSE, sset |-> FALSE, srem |-> FALSE]

\* Storage.getItem / setItem / removeItem of one backend
getItem(b, throws, key) == IF throws THEN Thrown ELSE b[key]
setItem(b, throws, key, value) ==
    IF throws THEN [threw |-> TRUE, b |-> b]
    ELSE [threw |-> FALSE, b |-> [b EXCEPT ![key] = value]]
removeItem(b, throws, key) ==
    IF throws THEN [threw |-> TRUE, b |-> b]
    ELSE [threw |-> FALSE, b |-> [b EXCEPT ![key] = Null]]

\* !raw
Falsy(raw) == raw.k = "null" \/ (raw.k = "text" /\ raw.s = <<>>)

\* JSON.parse(raw): the value, or Thrown on a SyntaxError
JSONparse(raw) ==
    CASE raw.k = "json" -> raw.v
      [] raw.k = "null" -> JNull
      [] OTHER -> Thrown

IsThrown(x) == "k" \in DOMAIN x /\ x.k = "throw"

\* JSON.stringify of a value: properties holding undefined are dropped
JSONstringify(v) ==
    IF v.t = "object"
    THEN JsonText(JObj([n \in {m \in DOMAIN v.f : v.f[m].t # "undefined"}
                          |-> v.f[n]]))
    ELSE JsonText(v)

----------------------------------------------------------------------------
(* init_gate_protection.js: const storage = { get, set, remove } *)

\* A faulty variant of storage_get: the session backend is read first.
storage_get_sessionFirst(l, s, f, key) ==
    LET b == getItem(s, f.sget, key) IN
    IF ~IsThrown(b) /\ b.k # "null" THEN [value |-> b, threw |-> FALSE]
    ELSE LET a == getItem(l, f.lget, key) IN
         IF IsThrown(a) THEN [value |-> Null, threw |-> FALSE]
         ELSE [value |-> a, threw |-> FALSE]

\* A faulty variant of storage_get: the session read is not inside a try block.
storage_get_uncaught(l, s, f, key) ==
    LET a == getItem(l, f.lget, key) IN
    IF ~IsThrown(a) /\ a.k # "null" THEN [value |-> a, threw |-> FALSE]
    ELSE LET b == getItem(s, f.sget, key) IN
         IF IsThrown(b) THEN [value |-> Null, threw |-> TRUE]
         ELSE [value |-> b, threw |-> FALSE]

storage_get(l, s, f, key) ==
    LET a == getItem(l, f.lget, key) IN
    IF ~IsThrown(a) /\ a.k # "null" THEN [value |-> a, threw |-> FALSE]
    ELSE LET b == getItem(s, f.sget, key) IN
         IF IsThrown(b) THEN [value |-> Null, threw |-> FALSE]
         ELSE [value |-> b, threw |-> FALSE]

storage_set(l, s, f, key, value) ==
    LET a == setItem(l, f.lset, key, value)
        b == setItem(s, f.sset, key, value)
    IN [ls |-> a.b, ss |-> b.b, value |-> ~a.threw \/ ~b.threw,
        threw |-> FALSE]

storage_remove(l, s, f, key) ==
    LET a == removeItem(l, f.lrem, key)
        b == removeItem(s, f.srem, key)
    IN [ls |-> a.b, ss |-> b.b, value |-> ~a.threw \/ ~b.threw,
        threw |-> FALSE]

----------------------------------------------------------------------------
(* init_gate_protection.js: the page guard *)

\* A faulty variant of hasValidToken: an expiry equal to the clock still counts.
hasValidToken_inclusive(l, s, f, t) ==
    LET raw == storage_get(l, s, f, TOKEN_KEY).value
        tokenData == JSONparse(raw)
    IN [value |-> ~Falsy(raw) /\ ~IsThrown(tokenData)
                  /\ GreaterThan(Prop(tokenData, "exp"), t - 1),
        threw |-> FALSE, ls |-> l, ss |-> s]

\* A faulty variant of hasValidToken: an expired token is removed when it is seen.
hasValidToken_evicting(l, s, f, t) ==
    LET raw == storage_get(l, s, f, TOKEN_KEY).value
        tokenData == JSONparse(raw)
        ok == ~Falsy(raw) /\ ~IsThrown(tokenData)
              /\ Truthy(Prop(tokenData, "exp"))
              /\ GreaterThan(Prop(tokenData, "exp"), t)
        r == storage_remove(l, s, f, TOKEN_KEY)
    IN IF ok \/ Falsy(raw)
       THEN [value |-> ok, threw |-> FALSE, ls |-> l, ss |-> s]
       ELSE [value |-> FALSE, threw |-> FALSE, ls |-> r.ls, ss |-> r.ss]

\* hasValidToken: the value returned, whether an exception left the function,
\* and the two backends as the call leaves them.
hasValidToken(l, s, f, t) ==
    LET got == storage_get(l, s, f, TOKEN_KEY)
        raw == got.value
        tokenData == JSONparse(raw)
    IN IF got.threw THEN [value |-> FALSE, threw |-> TRUE, ls |-> l, ss |-> s]
       ELSE IF Falsy(raw)
       THEN [value |-> FALSE, threw |-> FALSE, ls |-> l, ss |-> s]
       ELSE IF IsThrown(tokenData)                     \* catch { return false }
       THEN [value |-> FALSE, threw |-> FALSE, ls |-> l, ss |-> s]
       ELSE [value |-> Truthy(tokenData)
                       /\ Truthy(Prop(tokenData, "exp"))
                       /\ GreaterThan(Prop(tokenData, "exp"), t),
             threw |-> FALSE, ls |-> l, ss |-> s]

\* checkHoneypots, the part of the loop body for hp_tripped: the timestamp
\* read from the stored text, Null when there is none.
tripTimestamp(raw) ==
    LET parsed == JSONparse(raw) IN
    IF IsThrown(parsed)
    THEN LET numeric == stringToNumber(raw.s)
         IN IF ~numeric.nan THEN numeric ELSE JNull
    ELSE IF Truthy(parsed) /\ Prop(parsed, "timestamp").t = "number"
         THEN Prop(parsed, "timestamp")
         ELSE JNull

\* A faulty variant of isStale: a record expires as soon as it is 10 minutes old.
isStale_atTtl(timestamp, t) ==
    Truthy(timestamp) /\ t - timestamp.n >= TRIP_TTL_MS

\* timestamp && now - timestamp > 10 * 60 * 1000
isStale(timestamp, t) ==
    Truthy(timestamp) /\ t - timestamp.n > TRIP_TTL_MS

\* checkHoneypots, the two removals of a stale record
removeStale(r1, f) ==
    LET r2 == storage_remove(r1.ls, r1.ss, f,
                             SHIELD_STORAGE_KEYS.honeypotReason)
    IN [done |-> FALSE, threw |-> r1.threw \/ r2.threw,
        ls |-> r2.ls, ss |-> r2.ss]

\* checkHoneypots, the loop body for hp_tripped, got being what storage.get
\* returned: done when the body returns true, otherwise the loop continues
\* over the backends as the body leaves them.
trippedStep(l, s, f, t, got) ==
    IF got.threw \/ Falsy(got.value)
    THEN [done |-> FALSE, threw |-> got.threw, ls |-> l, ss |-> s]
    ELSE IF isStale(tripTimestamp(got.value), t)
    THEN removeStale(
             storage_remove(l, s, f, SHIELD_STORAGE_KEYS.honeypotTripped), f)
    ELSE [done |-> TRUE, threw |-> FALSE, ls |-> l, ss |-> s]

\* A faulty variant of flagSteps: hp_focus is not looked at.
flagSteps_noFocus(st, clicked, focus) ==
    [value |-> st.done \/ ~Falsy(clicked.value),
     threw |-> st.threw \/ (~st.done /\ clicked.threw),
     ls |-> st.ls, ss |-> st.ss]

\* checkHoneypots, the loop bodies for hp_clicked and hp_focus and the final
\* return false
flagSteps(st, clicked, focus) ==
    [value |-> st.done \/ ~Falsy(clicked.value) \/ ~Falsy(focus.value),
     threw |-> st.threw \/ (~st.done /\ (clicked.threw \/ focus.threw)),
     ls |-> st.ls, ss |-> st.ss]

afterTripped(st, f) ==
    flagSteps(st,
              storage_get(st.ls, st.ss, f, SHIELD_STORAGE_KEYS.honeypotClicked),
              storage_get(st.ls, st.ss, f, SHIELD_STORAGE_KEYS.honeypotFocus))

\* checkHoneypots: the value returned and the backends as the call leaves
\* them (a stale hp_tripped is removed together with hp_reason).
checkHoneypots(l, s, f, t) ==
    afterTripped(
        trippedStep(l, s, f, t,
            storage_get(l, s, f, SHIELD_STORAGE_KEYS.honeypotTripped)), f)

isPathExempt(currentPath, exemptPaths) ==
    \E path \in exemptPaths :
        currentPath = path \/ startsWith(currentPath, path \o <<"/">>)

\* encodeURIComponent, character by character
encodeChar(c) ==
    CASE c = "/" -> <<"%", "2", "F">>
      [] c = "?" -> <<"%", "3", "F">>
      [] c = "=" -> <<"%", "3", "D">>
      [] c = "&" -> <<"%", "2", "6">>
      [] c = " " -> <<"%", "2", "0">>
      [] OTHER -> <<c>>

RECURSIVE encodeURIComponent(_)
encodeURIComponent(s) ==
    IF s = <<>> THEN <<>>
    ELSE encodeChar(Head(s)) \o encodeURIComponent(Tail(s))

Url(s) == [k |-> "url", s |-> s]

\* A faulty variant of buildGateRedirectUrl: the separator is always "?".
buildGateRedirectUrl_question(gatePath, location, honeypotActive) ==
    LET next == encodeURIComponent(location.pathname \o location.search)
    IN IF honeypotActive
       THEN Url(gatePath \o <<"?">>
                \o <<"h", "p", "=", "1", "&", "n", "e", "x", "t", "=">> \o next)
       ELSE Url(gatePath \o <<"?">> \o <<"n", "e", "x", "t", "=">> \o next)

buildGateRedirectUrl(gatePath, location, honeypotActive) ==
    LET next == encodeURIComponent(location.pathname \o location.search)
        separator == IF includes(gatePath, "?") THEN <<"&">> ELSE <<"?">>
    IN IF honeypotActive
       THEN Url(gatePath \o separator
                \o <<"h", "p", "=", "1", "&", "n", "e", "x", "t", "=">> \o next)
       ELSE Url(gatePath \o separator \o <<"n", "e", "x", "t", "=">> \o next)

\* A faulty variant of scheduleRedirect: every call hands a callback to
\* setTimeout.
scheduleRedirect_rearm(url, sched) ==
    [redirectScheduled |-> TRUE, redirectTarget |-> url, armed |-> TRUE]

\* scheduleRedirect: the scheduler's two variables after the call, and whether
\* the call handed a callback to setTimeout (it returns before that when
\* redirectScheduled already holds).
scheduleRedirect(url, sched) ==
    [redirectScheduled |-> TRUE, redirectTarget |-> url, armed |-> ~sched]

\* A faulty variant of gateDecision: the redirect needs a missing token and a trap.
gateDecision_and(honeypot, token, location, gatePath, vis, sched, target) ==
    IF ~token.value /\ honeypot.value
    THEN [visibility |-> vis, redirectScheduled |-> TRUE,
          redirectTarget |->
              buildGateRedirectUrl(gatePath, location, honeypot.value),
          armed |-> ~sched,
          ls |-> token.ls, ss |-> token.ss, threw |-> FALSE]
    ELSE [visibility |-> "visible", redirectScheduled |-> sched,
          redirectTarget |-> target, armed |-> FALSE,
          ls |-> token.ls, ss |-> token.ss,
          threw |-> FALSE]

\* runGateCheck from `if (!hasValidToken() || honeypotActive)` on, honeypot
\* and token being what checkHoneypots and hasValidToken returned.
gateDecision(honeypot, token, location, gatePath, vis, sched, target) ==
    IF honeypot.threw \/ token.threw
    THEN [visibility |-> vis, redirectScheduled |-> sched,
          redirectTarget |-> target, armed |-> FALSE,
          ls |-> token.ls, ss |-> token.ss,
          threw |-> TRUE]
    ELSE IF ~token.value \/ honeypot.value
    THEN LET sr == scheduleRedirect(
                       buildGateRedirectUrl(gatePath, location, honeypot.value),
                       sched)
         IN [visibility |-> vis,
             redirectScheduled |-> sr.redirectScheduled,
             redirectTarget |-> sr.redirectTarget, armed |-> sr.armed,
             ls |-> token.ls, ss |-> token.ss, threw |-> FALSE]
    ELSE [visibility |-> "visible", redirectScheduled |-> sched,
          redirectTarget |-> target, armed |-> FALSE,
          ls |-> token.ls, ss |-> token.ss,
          threw |-> FALSE]

afterHoneypots(honeypot, f, t, location, gatePath, vis, sched, target) ==
    gateDecision(honeypot, hasValidToken(honeypot.ls, honeypot.ss, f, t),
                 location, gatePath, vis, sched, target)

\* runGateCheck: the document, the scheduler and the backends as the call
\* leaves them, and whether an exception left the function.
runGateCheck(l, s, f, t, location, gatePath, vis, sched, target) ==
    IF isPathExempt(location.pathname, {gatePath})
    THEN [visibility |-> "visible", redirectScheduled |-> sched,
          redirectTarget |-> target, armed |-> FALSE,
          ls |-> l, ss |-> s, threw |-> FALSE]
    ELSE afterHoneypots(checkHoneypots(l, s, f, t), f, t, location, gatePath,
                        vis, sched, target)

----------------------------------------------------------------------------
(* init_gate_protection.js: configuration resolution at script start *)

NoProps == [n \in {} |-> Undefined]

\* One iteration of the loop of loadStoredOverrides: the object found in the
\* backend, Null when the loop goes on to the next backend.
storedOverridesOf(b, throws) ==
    LET raw == getItem(b, throws, CONFIG_STORAGE_KEY) IN
    IF IsThrown(raw) \/ Falsy(raw) THEN Null
    ELSE LET parsed == JSONparse(raw) IN
         IF IsThrown(parsed) THEN Null
         ELSE IF Truthy(parsed) /\ parsed.t = "object" THEN parsed
         ELSE Null

loadStoredOverrides(l, s, f) ==
    LET a == storedOverridesOf(l, f.lget)
        b == storedOverridesOf(s, f.sget)
    IN IF "t" \in DOMAIN a THEN a
       ELSE IF "t" \in DOMAIN b THEN b
       ELSE JObj(NoProps)

\* { ...a, ...b }
spread(a, b) ==
    JObj([n \in DOMAIN a.f \cup DOMAIN b.f |->
             IF n \in DOMAIN b.f THEN b.f[n] ELSE a.f[n]])

\* A faulty variant of resolveInitConfig: the injected configuration wins
\* over the stored overrides.
resolveInitConfig_injectedWins(config, l, s, f) ==
    LET existingConfig == IF Truthy(config) THEN config ELSE JObj(NoProps)
        baseConfig == spread(loadStoredOverrides(l, s, f), existingConfig)
    IN [k |-> "cfg",
        gatePath |-> sanitizeGatePath(Prop(baseConfig, "gatePath"),
                                      DEFAULT_GATE_PATH),
        shieldNamespace |-> sanitizeNamespace(
            Prop(baseConfig, "shieldNamespace"), DEFAULT_NAMESPACE),
        honeypotPrefix |-> sanitizePrefix(
            Prop(baseConfig, "honeypotPrefix"), DEFAULT_HONEYPOT_PREFIX),
        decoyPrefix |-> sanitizePrefix(
            Prop(baseConfig, "decoyPrefix"), DEFAULT_DECOY_PREFIX),
        base |-> baseConfig]

\* const existingConfig ... const DECOY_PREFIX
resolveInitConfig(config, l, s, f) ==
    LET existingConfig == IF Truthy(config) THEN config ELSE JObj(NoProps)
        baseConfig == spread(existingConfig, loadStoredOverrides(l, s, f))
    IN [k |-> "cfg",
        gatePath |-> sanitizeGatePath(Prop(baseConfig, "gatePath"),
                                      DEFAULT_GATE_PATH),
        shieldNamespace |-> sanitizeNamespace(
            Prop(baseConfig, "shieldNamespace"), DEFAULT_NAMESPACE),
        honeypotPrefix |-> sanitizePrefix(
            Prop(baseConfig, "honeypotPrefix"), DEFAULT_HONEYPOT_PREFIX),
        decoyPrefix |-> sanitizePrefix(
            Prop(baseConfig, "decoyPrefix"), DEFAULT_DECOY_PREFIX),
        base |-> baseConfig]

overridesOf(cfg) ==
    JObj([gatePath |-> JStr(cfg.gatePath),
          shieldNamespace |-> JStr(cfg.shieldNamespace),
          honeypotPrefix |-> JStr(cfg.honeypotPrefix),
          decoyPrefix |-> JStr(cfg.decoyPrefix)])

\* const resolvedConfig = { ...baseConfig, gatePath: GATE_PATH, ... }
resolvedConfig(cfg) == spread(cfg.base, overridesOf(cfg))

\* persistOverrides
persistOverrides(overrides, l, s, f) ==
    LET serialized == JSONstringify(overrides)
    IN [ls |-> setItem(l, f.lset, CONFIG_STORAGE_KEY, serialized).b,
        ss |-> setItem(s, f.sset, CONFIG_STORAGE_KEY, serialized).b]

\* resolvedConfig.autoHideRoot !== false
autoHides(config) ==
    LET v == Prop(config, "autoHideRoot") IN ~(v.t = "boolean" /\ ~v.b)

----------------------------------------------------------------------------
(* runtime_honeypots.js *)

\* A faulty variant of resolveRuntimeConfig: the namespace is read from
\* config.namespace.
resolveRuntimeConfig_namespace(config) ==
    LET c == IF Truthy(config) THEN config ELSE JObj(NoProps) IN
    [k |-> "cfg",
     shieldNamespace |-> sanitizeNamespace(Prop(c, "namespace"),
                                           DEFAULT_NAMESPACE),
     honeypotPrefix |-> runtimeSanitizePrefix(Prop(c, "honeypotPrefix"),
                                              DEFAULT_HONEYPOT_PREFIX),
     decoyPrefix |-> runtimeSanitizePrefix(Prop(c, "decoyPrefix"),
                                           DEFAULT_DECOY_PREFIX),
     gatePath |-> sanitizeGatePath(Prop(c, "gatePath"), DEFAULT_GATE_PATH)]

resolveRuntimeConfig(config) ==
    LET c == IF Truthy(config) THEN config ELSE JObj(NoProps) IN
    [k |-> "cfg",
     shieldNamespace |-> sanitizeNamespace(Prop(c, "shieldNamespace"),
                                           DEFAULT_NAMESPACE),
     honeypotPrefix |-> runtimeSanitizePrefix(Prop(c, "honeypotPrefix"),
                                              DEFAULT_HONEYPOT_PREFIX),
     decoyPrefix |-> runtimeSanitizePrefix(Prop(c, "decoyPrefix"),
                                           DEFAULT_DECOY_PREFIX),
     gatePath |-> sanitizeGatePath(Prop(c, "gatePath"), DEFAULT_GATE_PATH)]

\* runtimeName(value): `${PRODUCT_NAMESPACE}_${value}`
runtimeName(namespace, value) == namespace \o <<"_">> \o value

\* An unsigned 32-bit integer is kept as its two 16-bit halves: the product
\* hash * 31 of the script is a 37-bit number.
U32(hi, lo) == [hi |-> hi, lo |-> lo]

\* (hash * 31 + code) >>> 0
hashStep(hash, code) ==
    LET low == hash.lo * 31 + code
    IN U32((hash.hi * 31 + low \div 65536) % 65536, low % 65536)

\* The for loop of generateHash: loop[st] is the hash the loop ends with
\* when it is about to read seed[st.i] with the hash (st.hi, st.lo), which
\* is an unsigned 32-bit integer at every iteration.
hashLoop(seed) ==
    LET loop[st \in [hi : 0..65535, lo : 0..65535, i : Nat]] ==
            IF st.i > Len(seed) THEN U32(st.hi, st.lo)
            ELSE LET h == hashStep(st, charCodeAt(seed[st.i]))
                 IN loop[[hi |-> h.hi, lo |-> h.lo, i |-> st.i + 1]]
    IN loop[[hi |-> 0, lo |-> 0, i |-> 1]]

Digits36 ==
    <<"0", "1", "2", "3", "4", "5", "6", "7", "8", "9", "a", "b", "c", "d",
      "e", "f", "g", "h", "i", "j", "k", "l", "m", "n", "o", "p", "q", "r",
      "s", "t", "u", "v", "w", "x", "y", "z">>

\* hash.toString(36): the digits of hash \div 36, then the digit hash % 36
RECURSIVE toString36(_)
toString36(hash) ==
    LET rest == (hash.hi % 36) * 65536 + hash.lo
        quotient == U32(hash.hi \div 36, rest \div 36)
        digit == <<Digits36[(rest % 36) + 1]>>
    IN IF quotient = U32(0, 0) THEN digit ELSE toString36(quotient) \o digit

\* s.padStart(length, "0")
RECURSIVE padStart(_, _)
padStart(s, length) ==
    IF Len(s) >= length THEN s ELSE padStart(<<"0">> \o s, length)

\* A faulty variant of hashOf: the hash is rendered without padding
hashOf_unpadded(hash, length) == toString36(hash)

\* generateHash from `const base36 = hash.toString(36)` on
hashOf(hash, length) ==
    LET base36 == toString36(hash)
    IN IF Len(base36) >= length
       THEN SubSeq(base36, Len(base36) - length + 1, Len(base36))
       ELSE padStart(base36, length)

\* parts.filter(Boolean).join("|")
seedOf(parts) == join(SelectSeq(parts, LAMBDA x : x # <<>>), <<"|">>)

\* generateHash(parts), length = 8
generateHash(parts) == hashOf(hashLoop(seedOf(parts)), 8)

\* A faulty variant of buildReason: the honeypot prefix is used for every
\* type.
buildReason_onePrefix(cfg, timeBucket, type, detail, extra) ==
    LET prefix == cfg.honeypotPrefix
        hash == generateHash(<<cfg.shieldNamespace, prefix, type, detail,
                               extra, numberToString(timeBucket)>>)
    IN runtimeName(cfg.shieldNamespace,
                   IF prefix # <<>> THEN prefix \o <<"_">> \o hash ELSE hash)

\* buildReason(type, detail, extra) under the configuration cfg of the
\* script and its TIME_BUCKET
buildReason(cfg, timeBucket, type, detail, extra) ==
    LET prefix == IF type = <<"d", "e", "c", "o", "y">>
                  THEN cfg.decoyPrefix ELSE cfg.honeypotPrefix
        hash == generateHash(<<cfg.shieldNamespace, prefix, type, detail,
                               extra, numberToString(timeBucket)>>)
    IN runtimeName(cfg.shieldNamespace,
                   IF prefix # <<>> THEN prefix \o <<"_">> \o hash ELSE hash)

\* A faulty variant of runtime_storage_set: the local write is not inside a
\* try block, so a throwing localStorage ends the call.
runtime_storage_set_uncaught(l, s, f, key, value) ==
    IF f.lset THEN [ls |-> l, ss |-> s, threw |-> TRUE]
    ELSE [ls |-> setItem(l, f.lset, key, value).b,
          ss |-> setItem(s, f.sset, key, value).b, threw |-> FALSE]

\* createStorage().set: both backends are tried, each inside its own try
\* block; nothing is returned
runtime_storage_set(l, s, f, key, value) ==
    [ls |-> setItem(l, f.lset, key, value).b,
     ss |-> setItem(s, f.sset, key, value).b, threw |-> FALSE]

\* JSON.stringify({ reason, timestamp: Date.now(), path, ...context })
tripPayload(reason, context, t, location) ==
    JSONstringify(JObj([reason |-> JStr(reason),
                        timestamp |-> JNum(t),
                        path |-> JStr(location.pathname),
                        category |-> JStr(context.category),
                        event |-> JStr(context.event)]))

\* `${GATE_PATH}${separator}hp=1&reason=${reason}&next=${next}`
tripUrl(gatePath, location, reason) ==
    Url(gatePath
        \o (IF includes(gatePath, "?") THEN <<"&">> ELSE <<"?">>)
        \o <<"h", "p", "=", "1", "&", "r", "e", "a", "s", "o", "n", "=">>
        \o reason
        \o <<"&", "n", "e", "x", "t", "=">>
        \o encodeURIComponent(location.pathname \o location.search))

\* A faulty variant of tripHoneypot: hp_reason is written only when no reason
\* is stored yet.
tripHoneypot_keepReason(l, s, f, t, location, gatePath, reason, context) ==
    LET payload == tripPayload(reason, context, t, location)
        w1 == runtime_storage_set(l, s, f,
                  SHIELD_STORAGE_KEYS.honeypotTripped, payload)
        w2 == IF l[SHIELD_STORAGE_KEYS.honeypotReason] = Null
              THEN runtime_storage_set(w1.ls, w1.ss, f,
                       SHIELD_STORAGE_KEYS.honeypotReason, PlainText(reason))
              ELSE w1
    IN [ls |-> w2.ls, ss |-> w2.ss,
        threw |-> w1.threw \/ w2.threw,
        url |-> tripUrl(gatePath, location, reason),
        calls |-> <<SHIELD_STORAGE_KEYS.honeypotTripped,
                    SHIELD_STORAGE_KEYS.honeypotReason, "location.replace">>]

\* createTripHoneypot(storage)(reason, context): the backends after the two
\* writes, the URL handed to location.replace, and the calls in the order
\* the function makes them.
tripHoneypot(l, s, f, t, location, gatePath, reason, context) ==
    LET payload == tripPayload(reason, context, t, location)
        w1 == runtime_storage_set(l, s, f,
                  SHIELD_STORAGE_KEYS.honeypotTripped, payload)
        w2 == runtime_storage_set(w1.ls, w1.ss, f,
                  SHIELD_STORAGE_KEYS.honeypotReason, PlainText(reason))
    IN [ls |-> w2.ls, ss |-> w2.ss,
        threw |-> w1.threw \/ w2.threw,
        url |-> tripUrl(gatePath, location, reason),
        calls |-> <<SHIELD_STORAGE_KEYS.honeypotTripped,
                    SHIELD_STORAGE_KEYS.honeypotReason, "location.replace">>]

\* The runtime script before it has run: no TIME_BUCKET, no controller, no
\* timer.  gen counts the AbortControllers made so far and names the latest
\* (runtimeAbortController), live holds the controllers not yet aborted,
\* timers the pending idle timers, track[g] the counters of
\* setupUserInteractionTracking of initialisation g.
NoEngine ==
    [timeBucket |-> -1, gen |-> 0, live |-> {}, idleTimeoutId |-> 0,
     timers |-> {}, track |-> <<>>, hidden |-> FALSE]

\* let pointerInteractions = 0; ... let lastClickTime = 0; clicks lists the
\* Date.now() of the clicks the listener has handled, idleRuns counts the
\* runs of the idle callback that read these counters
NoInteraction ==
    [pointerInteractions |-> 0, keyPresses |-> 0, rapidClicks |-> 0,
     lastClickTime |-> 0, clicks |-> <<>>, idleRuns |-> 0]

\* A faulty variant of abortPrevious: the previous controller stays.
abortPrevious_kept(e) == e.live

\* if (runtimeAbortController) runtimeAbortController.abort()
abortPrevious(e) == e.live \ {e.gen}

\* The timers that clearTimeout(idleTimeoutId) leaves pending
clearIdleTimeout(e) == {x \in e.timers : x.id # e.idleTimeoutId}

\* The initialisations whose counters a listener or a timer can still reach
reachable(live, timers) == live \cup {x.id : x \in timers}

\* initRuntimeHoneypots at time t, resolveRuntimeConfig apart; the counters
\* of an initialisation whose listeners are detached and whose timer is
\* cleared are garbage
initRuntimeHoneypots(e, t) ==
    [e EXCEPT !.live = abortPrevious(e) \cup {e.gen + 1},
              !.timers = clearIdleTimeout(e)
                         \cup {[id |-> e.gen + 1, due |-> t + IDLE_TIMEOUT_MS]},
              !.idleTimeoutId = e.gen + 1,
              !.gen = e.gen + 1,
              !.track = [g \in reachable(abortPrevious(e),
                                         clearIdleTimeout(e))
                                 \cup {e.gen + 1} |->
                           IF g = e.gen + 1 THEN NoInteraction
                           ELSE e.track[g]]]

\* The counters after the "click" listener has run at time t
clickStep(k, t) ==
    IF t - k.lastClickTime < 100
    THEN [k EXCEPT !.rapidClicks = @ + 1, !.lastClickTime = t,
                   !.clicks = Append(@, t)]
    ELSE [k EXCEPT !.rapidClicks = 0, !.lastClickTime = t,
                   !.clicks = Append(@, t)]

\* Whether the "click" listener at time t calls tripHoneypot
clickTrips(k, t) == t - k.lastClickTime < 100 /\ k.rapidClicks + 1 > 3

\* A faulty variant of idleTrips: key presses are not looked at.
idleTrips_pointerOnly(k, hidden) == ~hidden /\ k.pointerInteractions = 0

\* The condition of the idle timer callback
idleTrips(k, hidden) ==
    ~hidden /\ k.pointerInteractions = 0 /\ k.keyPresses = 0

----------------------------------------------------------------------------
(* The gate page: token manager, penalty state, solver and controller *)

\* The defaults of the shield options
ShieldDefaults ==
    [redirectTo |-> <<"/">>, difficulty |-> 8, timeoutMs |-> 10000,
     tokenTtlMinutes |-> 30, enableNearMisses |-> TRUE, honeypotPenalty |-> 1,
     maxPenaltyDiff |-> 16, enableFinalCheck |-> TRUE,
     enableTimeValidation |-> TRUE, redirectDelayMs |-> 500,
     minSolveDurationMs |-> 600]

GATE_STATUS ==
    [INITIALIZING |-> "initializing", POW_START |-> "pow-start",
     POW_INCOMPLETE |-> "pow-incomplete", POW_COMPLETE |-> "pow-complete",
     REDIRECTING |-> "redirecting", ERROR |-> "error"]

\* A faulty variant of validate: a token is accepted up to and including exp.
validate_inclusive(l, s, f, t) ==
    LET raw == storage_get(l, s, f, TOKEN_KEY).value
        tokenData == JSONparse(raw)
    IN /\ ~Falsy(raw)
       /\ ~IsThrown(tokenData)
       /\ Prop(tokenData, "exp").t = "number"
       /\ Prop(tokenData, "exp").n >= t

\* Token manager, validate(): false on a missing key, a JSON parse failure,
\* a missing exp, or exp <= now
validate(l, s, f, t) ==
    LET raw == storage_get(l, s, f, TOKEN_KEY).value
        tokenData == JSONparse(raw)
    IN /\ ~Falsy(raw)
       /\ ~IsThrown(tokenData)
       /\ Prop(tokenData, "exp").t = "number"
       /\ Prop(tokenData, "exp").n > t

Base64 ==
    <<"A", "B", "C", "D", "E", "F", "G", "H", "I", "J", "K", "L", "M", "N",
      "O", "P", "Q", "R", "S", "T", "U", "V", "W", "X", "Y", "Z", "a", "b",
      "c", "d", "e", "f", "g", "h", "i", "j", "k", "l", "m", "n", "o", "p",
      "q", "r", "s", "t", "u", "v", "w", "x", "y", "z", "0", "1", "2", "3",
      "4", "5", "6", "7", "8", "9", "+", "/">>

\* The four base64 characters of a group of one to three bytes
btoaGroup(bytes) ==
    LET b(i) == IF i <= Len(bytes) THEN bytes[i] ELSE 0
        n == b(1) * 65536 + b(2) * 256 + b(3)
    IN <<Base64[(n \div 262144) + 1],
         Base64[((n \div 4096) % 64) + 1],
         IF Len(bytes) >= 2 THEN Base64[((n \div 64) % 64) + 1] ELSE "=",
         IF Len(bytes) = 3 THEN Base64[(n % 64) + 1] ELSE "=">>

RECURSIVE btoaBytes(_)
btoaBytes(bytes) ==
    IF bytes = <<>> THEN <<>>
    ELSE IF Len(bytes) <= 3 THEN btoaGroup(bytes)
    ELSE btoaGroup(SubSeq(bytes, 1, 3))
         \o btoaBytes(SubSeq(bytes, 4, Len(bytes)))

\* btoa(s) of a string of characters with the codes 32 to 126
btoa(s) == btoaBytes([i \in 1..Len(s) |-> charCodeAt(s[i])])

\* The two-part token string: the base64 proof, ".", the 16 hex digits of the
\* content digest
tokenString(proof, digest) == btoa(proof) \o <<".">> \o digest

\* A faulty variant of mint: the time to live is taken as seconds.
mint_seconds(proof, digest, t, tokenTtlMinutes) ==
    JsonText(JObj([token |-> JStr(tokenString(proof, digest)),
                   exp |-> JNum(t + tokenTtlMinutes * 1000)]))

\* Token manager, mint(proof) at time t: the text written to storage
mint(proof, digest, t, tokenTtlMinutes) ==
    JsonText(JObj([token |-> JStr(tokenString(proof, digest)),
                   exp |-> JNum(t + tokenTtlMinutes * 60000)]))

\* Whether an unexpired trip record is stored
unexpiredTrip(l, s, f, t) ==
    LET raw == storage_get(l, s, f, SHIELD_STORAGE_KEYS.honeypotTripped).value
        parsed == JSONparse(raw)
    IN /\ ~Falsy(raw)
       /\ ~IsThrown(parsed)
       /\ Prop(parsed, "timestamp").t = "number"
       /\ t - Prop(parsed, "timestamp").n <= TRIP_TTL_MS

\* Penalty state: the violation count, reconstructed from the presence of an
\* unexpired trip record plus the penalty tracked in memory for the attempt
violationCount(l, s, f, t, tracked) ==
    (IF unexpiredTrip(l, s, f, t) THEN 1 ELSE 0) + tracked

Min(a, b) == IF a <= b THEN a ELSE b

\* A faulty variant of effectiveDifficulty: the cap is not applied.
effectiveDifficulty_uncapped(base, honeypotPenalty, maxPenaltyDiff, k) ==
    base + honeypotPenalty * k

\* Penalty state: the effective difficulty with k violations
effectiveDifficulty(base, honeypotPenalty, maxPenaltyDiff, k) ==
    Min(base + honeypotPenalty * k, maxPenaltyDiff)

\* s.split(sep), sep being one character
RECURSIVE split(_, _)
split(s, sep) ==
    IF \A i \in 1..Len(s) : s[i] # sep THEN <<s>>
    ELSE LET i == CHOOSE j \in 1..Len(s) :
                      s[j] = sep /\ \A h \in 1..(j - 1) : s[h] # sep
         IN <<SubSeq(s, 1, i - 1)>> \o split(SubSeq(s, i + 1, Len(s)), sep)

HexDigits ==
    <<"0", "1", "2", "3", "4", "5", "6", "7", "8", "9", "A", "B", "C", "D",
      "E", "F">>

hexValue(c) == (CHOOSE i \in 1..16 : HexDigits[i] = c) - 1

IsHex(c) == \E i \in 1..16 : HexDigits[i] = c

\* The value of a query parameter: "+" is a space and %XY the character with
\* the code XY
RECURSIVE decodeParam(_)
decodeParam(s) ==
    IF s = <<>> THEN <<>>
    ELSE IF s[1] = "+" THEN <<" ">> \o decodeParam(Tail(s))
    ELSE IF s[1] = "%" /\ Len(s) >= 3 /\ IsHex(s[2]) /\ IsHex(s[3])
                       /\ 16 * hexValue(s[2]) + hexValue(s[3]) \in 32..126
    THEN <<Ascii[16 * hexValue(s[2]) + hexValue(s[3]) - 31]>>
         \o decodeParam(SubSeq(s, 4, Len(s)))
    ELSE <<s[1]>> \o decodeParam(Tail(s))

\* The name and the value of one "name=value" of a query string
paramName(pair) == decodeParam(split(pair, "=")[1])
paramValue(pair) ==
    IF Len(split(pair, "=")[1]) = Len(pair) THEN <<>>
    ELSE decodeParam(SubSeq(pair, Len(split(pair, "=")[1]) + 2, Len(pair)))

\* new URLSearchParams(location.search).get(name): Null when there is none
searchParam(search, name) ==
    LET query == IF search # <<>> /\ search[1] = "?" THEN Tail(search)
                 ELSE search
        pairs == split(query, "&")
        hits == {i \in 1..Len(pairs) :
                     pairs[i] # <<>> /\ paramName(pairs[i]) = name}
    IN IF hits = {} THEN Null
       ELSE PlainText(paramValue(pairs[CHOOSE i \in hits :
                                            \A j \in hits : i <= j]))

NEXT_PARAM == <<"n", "e", "x", "t">>

\* A faulty variant of destination: redirectTo wins over next.
destination_redirectTo(next, redirectTo) == redirectTo

\* Where the gate navigates: the next value of the incoming query string,
\* redirectTo when there is none
destination(next, redirectTo) ==
    IF next.k = "text" /\ next.s # <<>> THEN next.s ELSE redirectTo

\* The solver has found nothing yet
NoSolution == [kind |-> "", proof |-> <<>>, digest |-> <<>>, at |-> -1]

\* The gate before its script has run: no status, the solver idle
NoGate ==
    [status |-> "", solver |-> "idle", cfg |-> ShieldDefaults, next |-> Null,
     difficulty |-> -1, violations |-> 0, attempt |-> 0, startedAt |-> -1,
     found |-> NoSolution, duration |-> -1, timers |-> {}, aborted |-> FALSE,
     minted |-> 0, progress |-> 0]

----------------------------------------------------------------------------
(* The handlers *)

Trap(type, detail, extra) == [type |-> type, detail |-> detail, extra |-> extra]

HONEYPOT ==
    <<"h", "o", "n", "e", "y", "p", "o", "t">>
DECOY ==
    <<"d", "e", "c", "o", "y">>

\* buildReason("honeypot", "rapid_clicks")
RapidClicks ==
    Trap(HONEYPOT,
         <<"r", "a", "p", "i", "d", "_", "c", "l", "i", "c", "k", "s">>,
         <<>>)

\* buildReason("honeypot", "no_user_interaction")
NoUserInteraction ==
    Trap(HONEYPOT,
         <<"n", "o", "_", "u", "s", "e", "r", "_", "i", "n", "t", "e", "r",
           "a", "c", "t", "i", "o", "n">>,
         <<>>)

\* buildReason("honeypot", "runtime_input_0", hp.name) of a field named "e"
HoneypotInput ==
    Trap(HONEYPOT,
         <<"r", "u", "n", "t", "i", "m", "e", "_", "i", "n", "p", "u", "t",
           "_", "0">>,
         <<"e">>)

\* buildReason("decoy", "runtime_click_0", link.href) of a link to /admin
DecoyClick ==
    Trap(DECOY,
         <<"r", "u", "n", "t", "i", "m", "e", "_", "c", "l", "i", "c", "k",
           "_", "0">>,
         <<"h", "t", "t", "p", ":", "/", "/", "h", "/", "a", "d", "m", "i",
           "n">>)

Loaded == initCfg.k = "cfg"
RuntimeLoaded == rtCfg.k = "cfg"

\* What a call of runGateCheck that returned g leaves behind
gateEffect(g, op, pending) ==
    /\ ls' = g.ls
    /\ ss' = g.ss
    /\ visibility' = g.visibility
    /\ redirectScheduled' = g.redirectScheduled
    /\ redirectTarget' = g.redirectTarget
    /\ redirectTimers' = IF g.armed THEN pending + 1 ELSE pending
    /\ ev' = [op |-> op, threw |-> g.threw, armed |-> g.armed]

\* The init script from `if (resolvedConfig.autoHideRoot !== false` to
\* runGateCheck(), the overrides having been persisted
loadGate(p, cfg, resolved, saved) ==
    /\ loc' = p
    /\ initCfg' = cfg
    /\ windowConfig' = resolved
    /\ rtCfg' = Null
    /\ navigated' = Null
    /\ gateEffect(runGateCheck(saved.ls, saved.ss, fail, now, p, cfg.gatePath,
                               IF autoHides(resolved) THEN "hidden" ELSE "",
                               FALSE, Null),
                  "load", 0)
    /\ engine' = NoEngine
    /\ gate' = NoGate
    /\ UNCHANGED <<lastTrip, trips, injected, fail, now>>

\* The init script from `const resolvedConfig` on
loadResolved(p, cfg) ==
    loadGate(p, cfg, resolvedConfig(cfg),
             persistOverrides(overridesOf(cfg), ls, ss, fail))

\* A document is loaded at location p: the injected configuration is set on
\* window, then the init script runs from its first line to runGateCheck().
PageLoad(p) == loadResolved(p, resolveInitConfig(injected, ls, ss, fail))

\* document "astro:page-load": runGateCheck
GateCheck ==
    /\ Loaded
    /\ gateEffect(runGateCheck(ls, ss, fail, now, loc, initCfg.gatePath,
                               visibility, redirectScheduled, redirectTarget),
                  "gate", redirectTimers)
    /\ UNCHANGED <<gate, engine, lastTrip, trips,
                   injected, windowConfig, initCfg, rtCfg, fail, now,
                   loc, navigated>>

\* document "astro:after-swap", the router having swapped in the page at p
AfterSwap(p) ==
    /\ Loaded
    /\ loc' = p
    /\ visibility' = "visible"
    /\ ev' = [op |-> "swap"]
    /\ UNCHANGED <<gate, engine, lastTrip, trips,
                   injected, windowConfig, initCfg, rtCfg, ls, ss, fail, now,
                   redirectScheduled, redirectTarget,
                   redirectTimers, navigated>>

\* The callback scheduleRedirect handed to setTimeout, location.replace
\* throwing or not: the finally block resets the scheduler either way.
timerFire(threw) ==
    /\ redirectTimers > 0
    /\ redirectTimers' = redirectTimers - 1
    /\ navigated' = IF redirectTarget.k = "url" /\ ~threw THEN redirectTarget
                    ELSE navigated
    /\ redirectTarget' = Null
    /\ redirectScheduled' = FALSE
    /\ ev' = [op |-> "timer", threw |-> threw,
              replaced |-> redirectTarget.k = "url"]
    /\ UNCHANGED <<gate, engine, lastTrip, trips,
                   injected, windowConfig, initCfg, rtCfg, ls, ss, fail, now,
                   loc, visibility>>

\* The callback when location.replace returns
TimerFire == timerFire(FALSE)

\* hasValidToken()
Validate ==
    /\ Loaded
    /\ LET r == hasValidToken(ls, ss, fail, now)
       IN /\ ls' = r.ls
          /\ ss' = r.ss
          /\ ev' = [op |-> "validate", ret |-> r.value, threw |-> r.threw]
    /\ UNCHANGED <<gate, engine, lastTrip, trips,
                   injected, windowConfig, initCfg, rtCfg, fail, now, loc,
                   visibility, redirectScheduled, redirectTarget,
                   redirectTimers, navigated>>

\* storage.get(key)
StorageGet(key) ==
    /\ Loaded
    /\ LET r == storage_get(ls, ss, fail, key)
       IN ev' = [op |-> "get", key |-> key, ret |-> r.value,
                 threw |-> r.threw]
    /\ UNCHANGED <<gate, engine, lastTrip, trips,
                   injected, windowConfig, initCfg, rtCfg, ls, ss, fail, now,
                   loc, visibility, redirectScheduled, redirectTarget,
                   redirectTimers,
                   navigated>>

\* storage.set(key, value)
StorageSet(key, value) ==
    /\ Loaded
    /\ LET r == storage_set(ls, ss, fail, key, value)
       IN /\ ls' = r.ls
          /\ ss' = r.ss
          /\ ev' = [op |-> "set", key |-> key, value |-> value,
                    ret |-> r.value, threw |-> r.threw]
    /\ UNCHANGED <<gate, engine, lastTrip, trips,
                   injected, windowConfig, initCfg, rtCfg, fail, now, loc,
                   visibility, redirectScheduled, redirectTarget,
                   redirectTimers, navigated>>

\* storage.remove(key)
StorageRemove(key) ==
    /\ Loaded
    /\ LET r == storage_remove(ls, ss, fail, key)
       IN /\ ls' = r.ls
          /\ ss' = r.ss
          /\ ev' = [op |-> "remove", key |-> key, ret |-> r.value,
                    threw |-> r.threw]
    /\ UNCHANGED <<gate, engine, lastTrip, trips,
                   injected, windowConfig, initCfg, rtCfg, fail, now, loc,
                   visibility, redirectScheduled, redirectTarget,
                   redirectTimers, navigated>>

\* The runtime script runs, once per document, from its first line to
\* `const TIME_BUCKET`
RuntimeStart ==
    /\ ~RuntimeLoaded
    /\ rtCfg' = resolveRuntimeConfig(windowConfig)
    /\ engine' = [NoEngine EXCEPT !.timeBucket = now \div TIME_BUCKET_MS,
                                  !.hidden = engine.hidden]
    /\ ev' = [op |-> "runtime"]
    /\ UNCHANGED <<gate, lastTrip, trips,
                   injected, windowConfig, initCfg, ls, ss, fail, now, loc,
                   visibility, redirectScheduled, redirectTarget,
                   redirectTimers, navigated>>

\* What a call tripHoneypot(reason, context) that returned r leaves behind
tripEffect(r, reason, context, by) ==
    /\ ls' = r.ls
    /\ ss' = r.ss
    /\ navigated' = r.url
    /\ lastTrip' = now
    /\ Len(trips) < MaxTrips
    /\ trips' = Append(trips, now)
    /\ ev' = [op |-> "trip", at |-> now, reason |-> reason,
              category |-> context.category, event |-> context.event,
              by |-> by, threw |-> r.threw, calls |-> r.calls]

\* tripHoneypot(reason, context), called by a listener of initialisation by
tripBy(reason, context, by) ==
    tripEffect(tripHoneypot(ls, ss, fail, now, loc, rtCfg.gatePath, reason,
                            context),
               reason, context, by)

\* What a listener that ran without calling tripHoneypot leaves behind
noTrip(op, by) ==
    /\ ev' = [op |-> op, by |-> by]
    /\ UNCHANGED <<ls, ss, navigated, lastTrip, trips>>

\* A listener of initialisation `by` has run: it called tripHoneypot for the
\* trap `trap` if fires, and nothing otherwise
listenerEffect(fires, trap, by, op) ==
    IF fires
    THEN \E reason \in {buildReason(rtCfg, engine.timeBucket, trap.type,
                                     trap.detail, trap.extra)} :
             tripBy(reason, [category |-> trap.type, event |-> trap.detail],
                    by)
    ELSE noTrip(op, by)

\* A trap listener fires: tripHoneypot(reason, context)
Trip(reason, context) ==
    /\ RuntimeLoaded
    /\ tripBy(reason, context, 0)
    /\ UNCHANGED <<gate, engine,
                   injected, windowConfig, initCfg, rtCfg, fail, now, loc,
                   visibility, redirectScheduled, redirectTarget,
                   redirectTimers>>

\* bootstrap or document "astro:page-load": initRuntimeHoneypots
InitRuntime ==
    /\ RuntimeLoaded
    /\ engine.gen < MaxInits
    /\ rtCfg' = resolveRuntimeConfig(windowConfig)
    /\ engine' = initRuntimeHoneypots(engine, now)
    /\ ev' = [op |-> "init", by |-> engine.gen + 1]
    /\ UNCHANGED <<gate, lastTrip, trips,
                   injected, windowConfig, initCfg, ls, ss, fail, now, loc,
                   visibility, redirectScheduled, redirectTarget,
                   redirectTimers, navigated>>

\* An "input", "change" or "focus" listener of a honeypot field, or the
\* "click" listener of a decoy link, registered by initialisation g
TrapEvent(g, trap) ==
    /\ g \in engine.live
    /\ listenerEffect(TRUE, trap, g, "trap")
    /\ UNCHANGED <<gate, engine,
                   injected, windowConfig, initCfg, rtCfg, fail, now, loc,
                   visibility, redirectScheduled, redirectTarget,
                   redirectTimers>>

\* document "mousemove", "pointermove", "touchstart" or "touchmove":
\* registerPointer of initialisation g
Pointer(g) ==
    /\ g \in engine.live
    /\ engine.track[g].pointerInteractions < MaxEvents
    /\ engine' = [engine EXCEPT !.track[g].pointerInteractions = @ + 1]
    /\ noTrip("pointer", g)
    /\ UNCHANGED <<gate, injected, windowConfig, initCfg, rtCfg, fail, now, loc,
                   visibility, redirectScheduled, redirectTarget,
                   redirectTimers>>

\* document "keydown": the listener of initialisation g
KeyDown(g) ==
    /\ g \in engine.live
    /\ engine.track[g].keyPresses < MaxEvents
    /\ engine' = [engine EXCEPT !.track[g].keyPresses = @ + 1]
    /\ noTrip("keydown", g)
    /\ UNCHANGED <<gate, injected, windowConfig, initCfg, rtCfg, fail, now, loc,
                   visibility, redirectScheduled, redirectTarget,
                   redirectTimers>>

\* document "click": the listener of initialisation g
Click(g) ==
    /\ g \in engine.live
    /\ Len(engine.track[g].clicks) < MaxClicks
    /\ engine' = [engine EXCEPT !.track[g] = clickStep(@, now)]
    /\ listenerEffect(clickTrips(engine.track[g], now), RapidClicks, g,
                      "click")
    /\ UNCHANGED <<gate, injected, windowConfig, initCfg, rtCfg, fail, now, loc,
                   visibility, redirectScheduled, redirectTarget,
                   redirectTimers>>

\* The callback setupIdleTimeout handed to setTimeout, for the timer that
\* initialisation g armed
IdleExpire(g) ==
    /\ \E x \in engine.timers : x.id = g /\ now >= x.due
    /\ engine' = [engine EXCEPT !.timers = {x \in @ : x.id # g},
                                 !.track[g].idleRuns = @ + 1]
    /\ listenerEffect(idleTrips(engine.track[g], engine.hidden),
                      NoUserInteraction, g, "idle")
    /\ UNCHANGED <<gate, injected, windowConfig, initCfg, rtCfg, fail, now, loc,
                   visibility, redirectScheduled, redirectTarget,
                   redirectTimers>>

\* The tab is hidden or shown: document.hidden changes
VisibilityChange ==
    /\ engine' = [engine EXCEPT !.hidden = ~@]
    /\ ev' = [op |-> "hidden"]
    /\ UNCHANGED <<gate, lastTrip, trips,
                   injected, windowConfig, initCfg, rtCfg, ls, ss, fail, now,
                   loc, visibility, redirectScheduled, redirectTarget,
                   redirectTimers,
                   navigated>>

\* generateHash(parts), called on its own before the page runs
GenerateHash(parts) ==
    /\ ev.op = "start"
    /\ ev' = [op |-> "hash", parts |-> parts, ret |-> generateHash(parts)]
    /\ UNCHANGED <<gate, engine, lastTrip, trips,
                   injected, windowConfig, initCfg, rtCfg, ls, ss, fail,
                   now, loc, visibility, redirectScheduled, redirectTarget,
                   redirectTimers,
                   navigated>>

\* Time passes by d milliseconds, up to `horizon` after T0
Wait(d, horizon) ==
    /\ now + d <= T0 + horizon
    /\ now' = now + d
    /\ ev' = [op |-> "wait"]
    /\ UNCHANGED <<gate, engine, lastTrip, trips,
                   injected, windowConfig, initCfg, rtCfg, ls, ss, fail,
                   loc, visibility, redirectScheduled, redirectTarget,
                   redirectTimers,
                   navigated>>

\* The browser loads the page that location.replace named
parseUrl(url) ==
    IF includes(url, "?")
    THEN [pathname |-> split(url, "?")[1],
          search |-> SubSeq(url, Len(split(url, "?")[1]) + 1, Len(url))]
    ELSE [pathname |-> url, search |-> <<>>]

Follow ==
    /\ navigated.k = "url"
    /\ PageLoad(parseUrl(navigated.s))

\* What a gate handler leaves alone
gateFrame ==
    UNCHANGED <<engine, lastTrip, trips, injected, windowConfig, initCfg,
                rtCfg, fail, now, loc, visibility, redirectScheduled,
                redirectTarget,
                redirectTimers>>

Timer(name, due) == [name |-> name, due |-> due]

Due(name) == \E x \in gate.timers : x.name = name /\ now >= x.due

\* The gate script starts on the gate page with the shield options c: the
\* status is initializing and the next value of the query string is captured
GateBoot(c) ==
    /\ Loaded
    /\ loc.pathname = initCfg.gatePath
    /\ gate.status = ""
    /\ gate' = [gate EXCEPT !.status = GATE_STATUS.INITIALIZING, !.cfg = c,
                            !.next = searchParam(loc.search, NEXT_PARAM),
                            !.found = NoSolution]
    /\ ev' = [op |-> "boot"]
    /\ UNCHANGED <<ls, ss, navigated>>
    /\ gateFrame

\* The longest an attempt under the options cfg lasts: to its ceiling, or to
\* its floor when that is later
attemptSpan(cfg) ==
    IF cfg.timeoutMs >= cfg.minSolveDurationMs THEN cfg.timeoutMs
    ELSE cfg.minSolveDurationMs

\* The solver goes from idle to running at time t with k violations
startSolve(g, t, k) ==
    [g EXCEPT !.status = GATE_STATUS.POW_START,
              !.solver = "running",
              !.violations = k,
              !.difficulty = effectiveDifficulty(g.cfg.difficulty,
                                                 g.cfg.honeypotPenalty,
                                                 g.cfg.maxPenaltyDiff, k),
              !.attempt = @ + 1,
              !.startedAt = t,
              !.found = NoSolution,
              !.duration = -1,
              !.progress = 0,
              !.timers = {Timer("timeout", t + g.cfg.timeoutMs),
                          Timer("search", t)}]

\* On entry: a valid token is the bypass, straight to redirecting with no
\* solve; otherwise the solve starts at the effective difficulty
GateEntry ==
    /\ gate.status = GATE_STATUS.INITIALIZING
    /\ now + attemptSpan(gate.cfg) <= T0 + MaxGateSpan
    /\ IF validate(ls, ss, fail, now)
       THEN /\ gate' = [gate EXCEPT !.status = GATE_STATUS.REDIRECTING]
            /\ navigated' = Url(destination(gate.next, gate.cfg.redirectTo))
            /\ ev' = [op |-> "bypass"]
       ELSE /\ gate' = startSolve(gate, now,
                                  violationCount(ls, ss, fail, now, 0))
            /\ navigated' = navigated
            /\ ev' = [op |-> "solve"]
    /\ UNCHANGED <<ls, ss>>
    /\ gateFrame

\* Whether the controller accepts the result the solver reports
accepts(cfg, found, duration) ==
    /\ cfg.enableFinalCheck => found.kind \in {"exact", "near"}
    /\ cfg.enableTimeValidation => duration >= cfg.minSolveDurationMs

\* The solver reports solved at time now: the controller checks the result,
\* mints the token and arms the redirect
reportSolved(found) ==
    IF accepts(gate.cfg, found, now - gate.startedAt)
    THEN /\ gate' = [gate EXCEPT !.solver = "solved",
                                 !.status = GATE_STATUS.POW_COMPLETE,
                                 !.found = found,
                                 !.duration = now - gate.startedAt,
                                 !.minted = @ + 1,
                                 !.progress = 100,
                                 !.timers = {Timer("redirect",
                                                now + gate.cfg.redirectDelayMs)}]
         /\ \E r \in {storage_set(ls, ss, fail, TOKEN_KEY,
                                  mint(found.proof, found.digest, now,
                                       gate.cfg.tokenTtlMinutes))} :
                /\ ls' = r.ls
                /\ ss' = r.ss
                /\ ev' = [op |-> "solved", at |-> now, stored |-> r.value]
    ELSE /\ gate' = [gate EXCEPT !.solver = "error",
                                 !.status = GATE_STATUS.ERROR,
                                 !.found = found,
                                 !.duration = now - gate.startedAt,
                                 !.timers = {}]
         /\ UNCHANGED <<ls, ss>>
         /\ ev' = [op |-> "rejected"]

\* A faulty variant of mustHold: a solution is never held.
mustHold_never(g, t) == FALSE

\* Whether a solution found at time t is held: the floor has not elapsed
mustHold(g, t) == t - g.startedAt < g.cfg.minSolveDurationMs

\* A time slice of the search loop finds a solution, exact or near miss,
\* before the timeout: it is reported at once when minSolveDurationMs has
\* elapsed, and held until then otherwise
SolverFind(kind, proof, digest) ==
    /\ Timer("search", gate.startedAt) \in gate.timers
    /\ now - gate.startedAt < gate.cfg.timeoutMs
    /\ kind = "near" => gate.cfg.enableNearMisses
    /\ IF ~mustHold(gate, now)
       THEN reportSolved([kind |-> kind, proof |-> proof, digest |-> digest,
                          at |-> now])
       ELSE /\ gate' = [gate EXCEPT
                          !.found = [kind |-> kind, proof |-> proof,
                                     digest |-> digest, at |-> now],
                          !.timers = {Timer("hold",
                                        gate.startedAt
                                        + gate.cfg.minSolveDurationMs)}]
            /\ UNCHANGED <<ls, ss>>
            /\ ev' = [op |-> "held"]
    /\ UNCHANGED navigated
    /\ gateFrame

\* The floor has elapsed: the held solution is reported
SolverRelease ==
    /\ Due("hold")
    /\ reportSolved(gate.found)
    /\ UNCHANGED navigated
    /\ gateFrame

\* A faulty variant of progressPercent: the value is not limited to 100.
progressPercent_unbounded(elapsedMs, timeoutMs) ==
    IF timeoutMs <= 0 THEN 100 ELSE (elapsedMs * 100) \div timeoutMs

\* The progress a yield of the search loop reports: the elapsed time relative
\* to timeoutMs, in percent, within 0 and 100
progressPercent(elapsedMs, timeoutMs) ==
    IF timeoutMs <= 0 THEN 100
    ELSE IF elapsedMs <= 0 THEN 0
    ELSE Min((elapsedMs * 100) \div timeoutMs, 100)

\* The search loop yields: aria-valuenow is set to the reported progress
SolverYield ==
    /\ Timer("search", gate.startedAt) \in gate.timers
    /\ gate' = [gate EXCEPT !.progress = progressPercent(now - gate.startedAt,
                                                         gate.cfg.timeoutMs)]
    /\ gate'.progress # gate.progress
    /\ ev' = [op |-> "yield", elapsedMs |-> now - gate.startedAt]
    /\ UNCHANGED <<ls, ss, navigated>>
    /\ gateFrame

\* The helper of abortSolve_dangling and abortSolve
idleSolver(g, timers) ==
    [g EXCEPT !.solver = "idle", !.found = NoSolution, !.timers = timers,
              !.aborted = TRUE]

\* A faulty variant of abortSolve: the pending timers are left behind.
abortSolve_dangling(g) == idleSolver(g, g.timers)

\* An abort of the in-flight solve: the solver is idle, no timer is pending
abortSolve(g) == idleSolver(g, {})

\* A faulty variant of SolverTimeout: the run is silently abandoned, the
\* solver left running.
SolverTimeout_abandoned ==
    /\ Due("timeout")
    /\ gate' = [gate EXCEPT !.timers = {}]
    /\ ev' = [op |-> "timeout"]
    /\ UNCHANGED <<ls, ss, navigated>>
    /\ gateFrame

\* The ceiling has elapsed with no solution: the attempt is incomplete
SolverTimeout ==
    /\ Due("timeout")
    /\ gate' = [gate EXCEPT !.solver = "incomplete",
                            !.status = GATE_STATUS.POW_INCOMPLETE,
                            !.timers = {}]
    /\ ev' = [op |-> "timeout"]
    /\ UNCHANGED <<ls, ss, navigated>>
    /\ gateFrame

\* A time slice of the search loop fails before the timeout: the attempt
\* ends in error
SolverError ==
    /\ Timer("search", gate.startedAt) \in gate.timers
    /\ now - gate.startedAt < gate.cfg.timeoutMs
    /\ gate' = [gate EXCEPT !.solver = "error",
                            !.status = GATE_STATUS.ERROR,
                            !.timers = {}]
    /\ ev' = [op |-> "failed"]
    /\ UNCHANGED <<ls, ss, navigated>>
    /\ gateFrame

\* A retry from one of the statuses `from`: the solve starts again
retryFrom(from) ==
    /\ gate.status \in from
    /\ gate.attempt < MaxAttempts
    /\ now + attemptSpan(gate.cfg) <= T0 + MaxGateSpan
    /\ gate' = startSolve(gate, now, violationCount(ls, ss, fail, now, 0))
    /\ ev' = [op |-> "retry"]
    /\ UNCHANGED <<ls, ss, navigated>>
    /\ gateFrame

\* A faulty variant of Retry: the retry is also offered once the proof of
\* work is complete.
Retry_afterComplete ==
    retryFrom({GATE_STATUS.POW_INCOMPLETE, GATE_STATUS.ERROR,
               GATE_STATUS.POW_COMPLETE})

\* The visitor asks for a retry after pow-incomplete or error
Retry == retryFrom({GATE_STATUS.POW_INCOMPLETE, GATE_STATUS.ERROR})

\* redirectDelayMs after the token was minted: the gate navigates
GateRedirect ==
    /\ Due("redirect")
    /\ gate' = [gate EXCEPT !.status = GATE_STATUS.REDIRECTING,
                            !.timers = {}]
    /\ navigated' = Url(destination(gate.next, gate.cfg.redirectTo))
    /\ ev' = [op |-> "redirect"]
    /\ UNCHANGED <<ls, ss>>
    /\ gateFrame

\* The in-flight solve is aborted: by the navigation a trap trip has
\* started, or by a navigation or re-initialisation of the page
AbortSolve ==
    /\ gate.solver = "running"
    /\ gate' = abortSolve(gate)
    /\ ev' = [op |-> "abort",
              cause |-> IF ev.op = "trip" THEN "trip" ELSE "navigation"]
    /\ UNCHANGED <<ls, ss, navigated>>
    /\ gateFrame

\* Time passes: by a millisecond (at most MaxTicks times in a row) or by the
\* ten minutes a trip record lives (once)
Tick(d) ==
    /\ d = 1 => (now - T0) % TRIP_TTL_MS < MaxTicks
    /\ d = TRIP_TTL_MS => now - T0 < TRIP_TTL_MS
    /\ now' = now + d
    /\ ev' = [op |-> "tick"]
    /\ UNCHANGED <<gate, engine, lastTrip, trips,
                   injected, windowConfig, initCfg, rtCfg, ls, ss, fail, loc,
                   visibility, redirectScheduled, redirectTarget,
                   redirectTimers, navigated>>

\* One kind of call of one backend starts or stops throwing (storage
\* disabled, quota exceeded, private browsing)
BackendsChange(c) ==
    /\ fail' = [fail EXCEPT ![c] = ~fail[c]]
    /\ ev' = [op |-> "env"]
    /\ UNCHANGED <<gate, engine, lastTrip, trips,
                   injected, windowConfig, initCfg, rtCfg, ls, ss, now, loc,
                   visibility, redirectScheduled, redirectTarget,
                   redirectTimers, navigated>>

----------------------------------------------------------------------------
(* Inputs of the model *)

Loc(p, q) == [pathname |-> p, search |-> q]

P_PAGE == <<"/", "a">>
P_GATE == DEFAULT_GATE_PATH
P_GATE_SUB == DEFAULT_GATE_PATH \o <<"/", "a">>
P_GATE_LIKE == DEFAULT_GATE_PATH \o <<"a">>

\* buildRuntimeConfig(resolveOptions({})) of index.ts
DefaultInjected ==
    JObj([gatePath |-> JStr(DEFAULT_GATE_PATH), autoHideRoot |-> JBool(TRUE)])

HEX16 == <<"0", "1", "2", "3", "4", "5", "6", "7",
           "8", "9", "a", "b", "c", "d", "e", "f">>
GoodTokenString == <<"Q", "Q", "=", "=", ".">> \o HEX16

TokenRecord(exp, token) == JsonText(JObj([token |-> token, exp |-> exp]))

\* A token as the gate mints it at T0
GoodToken == TokenRecord(JNum(T0 + TOKEN_TTL_MS), JStr(GoodTokenString))

InitWith(inj, l0, s0, f0) ==
    /\ injected = inj
    /\ windowConfig = inj
    /\ initCfg = Null
    /\ rtCfg = Null
    /\ ls = l0
    /\ ss = s0
    /\ fail = f0
    /\ now = T0
    /\ loc = Loc(P_PAGE, <<>>)
    /\ visibility = ""
    /\ redirectScheduled = FALSE
    /\ redirectTarget = Null
    /\ redirectTimers = 0
    /\ navigated = Null
    /\ ev = [op |-> "start"]
    /\ lastTrip = -1
    /\ trips = <<>>
    /\ engine = NoEngine
    /\ gate = NoGate

----------------------------------------------------------------------------
(* SpecStorage: the storage adapter under every failure pattern *)

StoreKeys == {TOKEN_KEY}
StoreVals == {GoodToken, PlainText(<<>>)}

InitStorage == InitWith(DefaultInjected, EmptyStorage, EmptyStorage, NoFailure)

NextStorage ==
    \/ PageLoad(Loc(P_PAGE, <<>>))
    \/ GateCheck
    \/ \E key \in StoreKeys : StorageGet(key)
    \/ \E key \in StoreKeys, value \in StoreVals : StorageSet(key, value)
    \/ \E key \in StoreKeys : StorageRemove(key)
    \/ \E c \in FailCalls : BackendsChange(c)

SpecStorage == InitStorage /\ [][NextStorage]_vars

\* C8: get returns the persistent backend's value when that read succeeds
\* with a non-null value, otherwise the session backend's value, otherwise
\* null; set and remove attempt both backends independently, leave every
\* other key alone and return true exactly when at least one backend did not
\* fail.
C8_AdapterSemantics ==
    [][/\ ev'.op = "get" =>
            ev'.ret = IF ~fail.lget /\ ls[ev'.key].k # "null"
                      THEN ls[ev'.key]
                      ELSE IF ~fail.sget THEN ss[ev'.key] ELSE Null
       /\ ev'.op = "set" =>
            /\ ls' = IF fail.lset THEN ls
                     ELSE [ls EXCEPT ![ev'.key] = ev'.value]
            /\ ss' = IF fail.sset THEN ss
                     ELSE [ss EXCEPT ![ev'.key] = ev'.value]
            /\ ev'.ret = (~fail.lset \/ ~fail.sset)
       /\ ev'.op = "remove" =>
            /\ ls' = IF fail.lrem THEN ls ELSE [ls EXCEPT ![ev'.key] = Null]
            /\ ss' = IF fail.srem THEN ss ELSE [ss EXCEPT ![ev'.key] = Null]
            /\ ev'.ret = (~fail.lrem \/ ~fail.srem)
      ]_vars

\* C8 witness: a write the persistent backend rejected and the session
\* backend accepted was reported as stored.
C8_Witness ==
    /\ ev.op = "set"
    /\ ev.ret = TRUE
    /\ fail.lset /\ ~fail.sset
    /\ ss[ev.key] = ev.value
    /\ ls[ev.key] # ev.value

\* C9: no adapter call and no gate check lets an exception escape, whatever
\* calls of whatever backend throw; with both backends failing get yields
\* null and set and remove yield false; and every gate check ends with the
\* root visible or a redirect scheduled.
C9_NeverRaises ==
    /\ ev.op \in {"get", "set", "remove", "load", "gate"} => ~ev.threw
    /\ (ev.op = "get" /\ fail.lget /\ fail.sget) => ev.ret = Null
    /\ (ev.op = "set" /\ fail.lset /\ fail.sset) => ev.ret = FALSE
    /\ (ev.op = "remove" /\ fail.lrem /\ fail.srem) => ev.ret = FALSE
    /\ ev.op \in {"load", "gate"} =>
           (visibility = "visible" \/ redirectScheduled)

\* C9 witness: a gate check with every call of both backends throwing ended
\* in a scheduled redirect.
C9_Witness ==
    /\ ev.op = "gate"
    /\ \A c \in DOMAIN fail : fail[c]
    /\ redirectScheduled
    /\ redirectTarget.k = "url"

----------------------------------------------------------------------------
(* SpecToken: hasValidToken over stored values and clock values *)


Upper == {"A","B","C","D","E","F","G","H","I","J","K","L","M",
          "N","O","P","Q","R","S","T","U","V","W","X","Y","Z"}

\* /^[A-Za-z0-9+/]+=*\.[a-f0-9]{16}$/ of the token structure test
IsTokenForm(v) ==
    /\ v.t = "string"
    /\ \E i \in 1..Len(v.s), j \in 1..Len(v.s) :
          /\ 1 <= j /\ j < i
          /\ v.s[i] = "."
          /\ \A m \in 1..j : v.s[m] \in Lower \cup Upper \cup Digit \cup {"+", "/"}
          /\ \A m \in (j + 1)..(i - 1) : v.s[m] = "="
          /\ Len(v.s) = i + 16
          /\ \A m \in (i + 1)..Len(v.s) :
                v.s[m] \in Digit \cup {"a", "b", "c", "d", "e", "f"}

TokenFields ==
    {[token |-> JStr(GoodTokenString)], [token |-> JStr(<<"x">>)], NoProps}

NumericExps == {0, T0, T0 + 1, T0 + TOKEN_TTL_MS}

OtherExps ==
    {JStr(numberToString(T0 + 1)), JStr(<<"x">>), JNull, JBool(TRUE)}

WithExp(f, exp) ==
    [n \in DOMAIN f \cup {"exp"} |-> IF n = "exp" THEN exp ELSE f[n]]

TokenSeeds ==
    {Null, PlainText(<<>>), PlainText(<<"x">>), JsonText(JNull),
     JsonText(JNum(5)), JsonText(JStr(<<"x">>)),
     JsonText(JObj([token |-> JStr(GoodTokenString)]))}
    \cup {JsonText(JObj(WithExp(f, JNum(e)))) :
             f \in TokenFields, e \in NumericExps}
    \cup {JsonText(JObj(WithExp([token |-> JStr(GoodTokenString)], x))) :
             x \in OtherExps}

ClockSteps == {1, TRIP_TTL_MS}

InitToken ==
    \E tl \in TokenSeeds, ts \in {Null, GoodToken} :
        InitWith(DefaultInjected,
                 [EmptyStorage EXCEPT ![TOKEN_KEY] = tl],
                 [EmptyStorage EXCEPT ![TOKEN_KEY] = ts], NoFailure)

NextToken ==
    \/ PageLoad(Loc(P_PAGE, <<>>))
    \/ Validate
    \/ \E d \in ClockSteps : Tick(d)
    \/ \E c \in {"lget", "sget"} : BackendsChange(c)

SpecToken == InitToken /\ [][NextToken]_vars

\* The text storage.get hands the guard for the token key
TokenRead == storage_get(ls, ss, fail, TOKEN_KEY).value

\* C2: hasValidToken returns true exactly when the stored value parses as
\* JSON with an exp field and exp > now; it returns false for a missing key,
\* a parse failure, a missing exp and exp <= now (exp = now included), and
\* no exception leaves it.
C2_FailClosed ==
    ev.op = "validate" =>
        /\ ~ev.threw
        /\ ev.ret = (/\ TokenRead.k = "json"
                     /\ TokenRead.v.t = "object"
                     /\ "exp" \in DOMAIN TokenRead.v.f
                     /\ GreaterThan(TokenRead.v.f.exp, now))

\* C2 witness: a token whose exp equals the clock was refused.
C2_Witness ==
    /\ ev.op = "validate"
    /\ ev.ret = FALSE
    /\ TokenRead.k = "json"
    /\ Prop(TokenRead.v, "exp") = JNum(now)

\* C3, as claimed: whenever the guard treats the token as valid, the stored
\* record has a token field of the form <base64 proof>.<16 hex> and
\* exp > now.
C3_ValidOnlyWellFormed ==
    (ev.op = "validate" /\ ev.ret) =>
        /\ TokenRead.k = "json"
        /\ IsTokenForm(Prop(TokenRead.v, "token"))
        /\ GreaterThan(Prop(TokenRead.v, "exp"), now)

\* C7: a validation changes neither backend, nor the redirect scheduler, nor
\* the document; two validations in a row agree; and a stored token with a
\* number exp validates true at every clock value below exp and false from
\* exp on.
C7_ValidateIdempotent ==
    [][ev'.op = "validate" =>
          /\ UNCHANGED <<ls, ss, redirectScheduled, redirectTarget,
                         redirectTimers,
                         visibility, navigated, loc>>
          /\ ev.op = "validate" => ev'.ret = ev.ret
          /\ (TokenRead.k = "json"
              /\ Prop(TokenRead.v, "exp").t = "number")
             => ev'.ret = (now < Prop(TokenRead.v, "exp").n)
      ]_vars

\* C7 witness: the clock has advanced and the stored token, not yet expired,
\* validated true again.
C7_Witness ==
    /\ ev.op = "validate"
    /\ ev.ret = TRUE
    /\ now > T0
    /\ TokenRead.k = "json"
    /\ Prop(TokenRead.v, "exp").t = "number"
    /\ Prop(TokenRead.v, "exp").n > now

----------------------------------------------------------------------------
(* SpecGuard: runGateCheck over paths, tokens, trap records and the clock *)

\* The texts storage.get hands the guard for the three trap keys
TrippedRead ==
    storage_get(ls, ss, fail, SHIELD_STORAGE_KEYS.honeypotTripped).value
ClickedRead ==
    storage_get(ls, ss, fail, SHIELD_STORAGE_KEYS.honeypotClicked).value
FocusRead ==
    storage_get(ls, ss, fail, SHIELD_STORAGE_KEYS.honeypotFocus).value

\* The stored token parses as JSON and its exp is after the clock
TokenValid ==
    /\ TokenRead.k = "json"
    /\ GreaterThan(Prop(TokenRead.v, "exp"), now)

\* checkHoneypots() is true
TrapActive == checkHoneypots(ls, ss, fail, now).value

\* The path is the gate path or a sub-path of it
PathExempt(pathname, gatePath) ==
    \/ pathname = gatePath
    \/ /\ Len(pathname) > Len(gatePath)
       /\ SubSeq(pathname, 1, Len(gatePath) + 1) = gatePath \o <<"/">>

Contains(s, sub) ==
    \E i \in 0..(Len(s) - Len(sub)) : SubSeq(s, i + 1, i + Len(sub)) = sub

\* The URL has the query parameter hp=1
CarriesHp(url) ==
    /\ url.k = "url"
    /\ \/ Contains(url.s, <<"?", "h", "p", "=", "1">>)
       \/ Contains(url.s, <<"&", "h", "p", "=", "1">>)

\* The step is a gate check: the one at the end of a document load or the one
\* of "astro:page-load"
GateStep == ev'.op \in {"load", "gate"}

\* The gate check of the step scheduled no redirect
NoRedirect ==
    IF ev'.op = "gate" THEN UNCHANGED <<redirectScheduled, redirectTarget>>
    ELSE ~redirectScheduled' /\ redirectTarget' = Null

\* The gate check of the step made the root visible
MadeVisible == visibility' = "visible"

\* The gate check of the step did not touch the root's visibility
NotMadeVisible ==
    IF ev'.op = "gate" THEN UNCHANGED visibility ELSE visibility' # "visible"

R1 == <<"a", "s", "_", "h", "p", "_", "0">>
Ctx == [category |-> <<"h">>, event |-> <<"e">>]

\* A trip record as tripHoneypot wrote it when the clock was ts
TripRecord(ts) == tripPayload(R1, Ctx, ts, Loc(P_PAGE, <<>>))

Fresh == TripRecord(T0)
Old == TripRecord(T0 - TRIP_TTL_MS - 1)
TenMinutes == TripRecord(T0 - TRIP_TTL_MS)
Zero == TripRecord(0)
Flag == PlainText(<<"1">>)

TrippedSeeds ==
    {Null, Fresh, TenMinutes, Old, Zero, PlainText(<<"x">>),
     PlainText(<<"+", "5">>), JsonText(JNum(5)),
     JsonText(JObj([reason |-> JStr(R1)]))}

\* What the two backends hold under the trap keys
TrapSeeds ==
    {[tl |-> x, ts |-> Null, cl |-> Null, fs |-> Null] : x \in TrippedSeeds}
    \cup {[tl |-> x, ts |-> Fresh, cl |-> Null, fs |-> Null] : x \in {Null, Old}}
    \cup {[tl |-> x, ts |-> Null, cl |-> Flag, fs |-> Null] : x \in {Null, Old}}
    \cup {[tl |-> Null, ts |-> Null, cl |-> Null, fs |-> Flag]}

GuardTokens == {Null, GoodToken, PlainText(<<"x">>)}

GuardFailures ==
    {NoFailure, [NoFailure EXCEPT !.lget = TRUE],
     [NoFailure EXCEPT !.lrem = TRUE],
     [NoFailure EXCEPT !.lrem = TRUE, !.srem = TRUE]}

Locations ==
    {Loc(P_PAGE, <<"?", "q">>), Loc(P_GATE, <<>>), Loc(P_GATE_SUB, <<>>),
     Loc(P_GATE_LIKE, <<>>)}

InitGuard ==
    \E tok \in GuardTokens, trap \in TrapSeeds, f \in GuardFailures :
        InitWith(DefaultInjected,
                 [EmptyStorage EXCEPT ![TOKEN_KEY] = tok,
                                      !["hp_tripped"] = trap.tl,
                                      !["hp_clicked"] = trap.cl],
                 [EmptyStorage EXCEPT !["hp_tripped"] = trap.ts,
                                      !["hp_focus"] = trap.fs],
                 f)

NextGuard ==
    \/ \E p \in Locations : PageLoad(p)
    \/ GateCheck
    \/ \E p \in Locations : AfterSwap(p)
    \/ \E d \in ClockSteps : Tick(d)

SpecGuard == InitGuard /\ [][NextGuard]_vars

\* C1: a gate check makes the root visible and schedules no redirect exactly
\* when the path is the gate path or a sub-path of it, or the stored token
\* is valid and no trap record is active; in every other case it schedules a
\* redirect to the gate and does not make the root visible, and the redirect
\* URL carries hp=1 exactly when a trap record is active.
C1_GuardDecision ==
    [][GateStep =>
          IF \/ PathExempt(loc'.pathname, initCfg'.gatePath)
             \/ (TokenValid /\ ~TrapActive)
          THEN MadeVisible /\ NoRedirect
          ELSE /\ NotMadeVisible
               /\ redirectScheduled'
               /\ redirectTarget'.k = "url"
               /\ startsWith(redirectTarget'.s, initCfg'.gatePath \o <<"?">>)
               /\ CarriesHp(redirectTarget') <=> TrapActive
      ]_vars

\* C1 witness: on a path that only looks like the gate path, a gate check
\* with a valid token and an active trap record left the root hidden and
\* scheduled the redirect with hp=1.
C1_Witness ==
    /\ ev.op = "gate"
    /\ loc.pathname = P_GATE_LIKE
    /\ TokenValid
    /\ TrapActive
    /\ visibility = "hidden"
    /\ redirectScheduled
    /\ CarriesHp(redirectTarget)

\* C5, as claimed: a gate check on a guarded path that reads a trip record
\* whose timestamp is more than ten minutes before the clock removes
\* hp_tripped and hp_reason from every backend whose removeItem works and,
\* given a valid token and no other trap key, makes the root visible without
\* scheduling a redirect.
C5_StaleNeverBlocks ==
    [][(/\ GateStep
        /\ ~PathExempt(loc'.pathname, initCfg'.gatePath)
        /\ TrippedRead.k = "json"
        /\ Prop(TrippedRead.v, "timestamp").t = "number"
        /\ now - Prop(TrippedRead.v, "timestamp").n > TRIP_TTL_MS)
       => /\ ~fail.lrem => /\ ls'["hp_tripped"] = Null
                           /\ ls'["hp_reason"] = Null
          /\ ~fail.srem => /\ ss'["hp_tripped"] = Null
                           /\ ss'["hp_reason"] = Null
          /\ (TokenValid /\ Falsy(ClickedRead) /\ Falsy(FocusRead))
             => MadeVisible /\ NoRedirect
      ]_vars

\* The backend without its trip record, without its token
WithoutTrip(b) == [b EXCEPT !["hp_tripped"] = Null]
WithoutToken(b) == [b EXCEPT ![TOKEN_KEY] = Null]

\* What a gate check at the step's location decides over backends l and s
Decision(l, s) ==
    LET g == runGateCheck(l, s, fail, now, loc', initCfg'.gatePath,
                          IF ev'.op = "gate" THEN visibility ELSE "hidden",
                          IF ev'.op = "gate" THEN redirectScheduled ELSE FALSE,
                          IF ev'.op = "gate" THEN redirectTarget ELSE Null)
    IN <<g.visibility, g.redirectScheduled, g.redirectTarget>>

\* C6, as claimed: a gate check that reads a trip text in which no timestamp
\* can be found decides as it would with no trip record stored, and a gate
\* check that reads a token text that is not JSON decides as it would with
\* no token stored.
C6_IntegrityAsAbsence ==
    [][GateStep =>
          /\ (~Falsy(TrippedRead) /\ tripTimestamp(TrippedRead) = JNull)
             => <<visibility', redirectScheduled', redirectTarget'>>
                = Decision(WithoutTrip(ls), WithoutTrip(ss))
          /\ TokenRead.k = "text"
             => <<visibility', redirectScheduled', redirectTarget'>>
                = Decision(WithoutToken(ls), WithoutToken(ss))
      ]_vars

\* C38, as claimed: under every pattern of failing backends, a get that
\* immediately follows a set of the same key that returned true returns the
\* value set, and a get that immediately follows a remove of the same key
\* that returned true returns null.
C38_RoundTrip ==
    [][(ev'.op = "get" /\ ev.op \in {"set", "remove"} /\ ev.key = ev'.key
        /\ ev.ret)
          => ev'.ret = IF ev.op = "set" THEN ev.value ELSE Null]_vars

\* The text read under hp_tripped holds a non-zero number as its timestamp
\* and that number is more than ten minutes before the clock
StaleRead ==
    LET ts == tripTimestamp(TrippedRead)
    IN /\ ~Falsy(TrippedRead)
       /\ ts # JNull
       /\ ts.n # 0
       /\ now - ts.n > TRIP_TTL_MS

\* What the step may do to backend b: nothing, or, when the record read is
\* stale, remove hp_tripped and hp_reason (both when removeItem works)
TrapFrame(b, c, removes) ==
    /\ \A key \in {TOKEN_KEY, SHIELD_STORAGE_KEYS.honeypotClicked,
                    SHIELD_STORAGE_KEYS.honeypotFocus} : c[key] = b[key]
    /\ \A key \in {SHIELD_STORAGE_KEYS.honeypotTripped,
                    SHIELD_STORAGE_KEYS.honeypotReason} :
           c[key] = IF StaleRead /\ removes THEN Null ELSE b[key]

\* C39: a gate check on a guarded path reports an active trap (its redirect
\* carries hp=1) exactly when hp_clicked or hp_focus reads as a non-empty
\* text at any age, or hp_tripped does and is not a record with a non-zero
\* numeric timestamp more than 600000 ms old; with no trap reported the
\* token alone decides; and the check leaves every key of both backends as
\* it was except hp_tripped and hp_reason, which it removes when the record
\* read is stale, the token key never being touched.
C39_ActiveTrap ==
    [][(GateStep /\ ~PathExempt(loc'.pathname, initCfg'.gatePath))
          => /\ IF \/ ~Falsy(TrippedRead) /\ ~StaleRead
                   \/ ~Falsy(ClickedRead)
                   \/ ~Falsy(FocusRead)
                THEN redirectScheduled' /\ CarriesHp(redirectTarget')
                ELSE IF TokenValid THEN MadeVisible
                     ELSE redirectScheduled' /\ ~CarriesHp(redirectTarget')
             /\ TrapFrame(ls, ls', ~fail.lrem)
             /\ TrapFrame(ss, ss', ~fail.srem)]_vars

\* More than ten minutes after the start a gate check has read the
\* hp_clicked flag stored before the start, hp_tripped is gone from
\* localStorage, and the check scheduled the redirect with hp=1, the token
\* being valid and still stored.
C39_Witness ==
    /\ ev.op = "gate"
    /\ now - T0 > TRIP_TTL_MS
    /\ ls[SHIELD_STORAGE_KEYS.honeypotTripped] = Null
    /\ ~Falsy(ClickedRead)
    /\ TokenValid
    /\ redirectScheduled
    /\ CarriesHp(redirectTarget)

----------------------------------------------------------------------------
(* SpecTrip: a trap fires, the clock advances, the guard runs again *)

InitTrip ==
    \E old \in {Null, Old} :
        InitWith(DefaultInjected,
                 [EmptyStorage EXCEPT ![TOKEN_KEY] = GoodToken,
                                      !["hp_tripped"] = old],
                 EmptyStorage, NoFailure)

NextTrip ==
    \/ PageLoad(Loc(P_PAGE, <<>>))
    \/ RuntimeStart
    \/ Trip(R1, Ctx)
    \/ GateCheck
    \/ TimerFire
    \/ Tick(TRIP_TTL_MS)
    \/ \E c \in {"lset", "sset"} : BackendsChange(c)

SpecTrip == InitTrip /\ [][NextTrip]_vars

\* The stored text is a trip record whose timestamp is the number t
StampedAt(raw, t) ==
    /\ raw.k = "json"
    /\ Prop(raw.v, "timestamp") = JNum(t)

\* C4, as claimed: when a trap fires hp_tripped is written with the clock as
\* its timestamp, and every later gate check on a guarded path within ten
\* minutes of the trip schedules the redirect with hp=1 although the stored
\* token is valid.
C4_ScenarioC ==
    [][/\ ev'.op = "trip" => StampedAt(TrippedRead', now)
       /\ (/\ GateStep
           /\ lastTrip >= 0
           /\ now - lastTrip <= TRIP_TTL_MS
           /\ ~PathExempt(loc'.pathname, initCfg'.gatePath)
           /\ TokenValid)
          => redirectScheduled' /\ CarriesHp(redirectTarget')
      ]_vars

\* C4, amended: when a trap fires hp_tripped is written, with the clock as
\* its timestamp, to every backend whose setItem works, and is left as it
\* was in a backend whose setItem throws; and every gate check on a guarded
\* path that reads the record of the last trip within ten minutes of it
\* schedules the redirect with hp=1 and does not make the root visible,
\* although the stored token is valid.
C4_TripBlocks ==
    [][/\ ev'.op = "trip" =>
            /\ IF fail.lset THEN ls'["hp_tripped"] = ls["hp_tripped"]
               ELSE StampedAt(ls'["hp_tripped"], now)
            /\ IF fail.sset THEN ss'["hp_tripped"] = ss["hp_tripped"]
               ELSE StampedAt(ss'["hp_tripped"], now)
       /\ (/\ GateStep
           /\ lastTrip >= 0
           /\ now - lastTrip <= TRIP_TTL_MS
           /\ StampedAt(TrippedRead, lastTrip)
           /\ ~PathExempt(loc'.pathname, initCfg'.gatePath)
           /\ TokenValid)
          => /\ redirectScheduled'
             /\ CarriesHp(redirectTarget')
             /\ NotMadeVisible
      ]_vars

\* C4 witness: exactly ten minutes after a trap fired, a gate check with a
\* valid token read the trap's record and scheduled the redirect with hp=1.
C4_Witness ==
    /\ ev.op = "gate"
    /\ lastTrip >= 0
    /\ now - lastTrip = TRIP_TTL_MS
    /\ StampedAt(TrippedRead, lastTrip)
    /\ TokenValid
    /\ redirectScheduled
    /\ CarriesHp(redirectTarget)

----------------------------------------------------------------------------
(* SpecConfig: the two configuration resolvers over raw inputs *)

\* index.ts: sanitizeGatePath(value: string | undefined), the type being
\* erased when the options come from astro.config.mjs: the string returned,
\* or Thrown where value.trim is not a function
sanitizeGatePathOption(value) ==
    IF ~Truthy(value) THEN JStr(DEFAULT_GATE_PATH)
    ELSE IF ~isString(value) THEN Thrown
    ELSE LET trimmed == trim(value.s) IN
         IF trimmed = <<>> THEN JStr(DEFAULT_GATE_PATH)
         ELSE IF ~startsWith(trimmed, <<"/">>) THEN JStr(<<"/">> \o trimmed)
         ELSE JStr(trimmed)

\* index.ts: resolveOptions({ gatePath, shield })
resolveOptions(gatePath, shield) ==
    [gatePath |-> sanitizeGatePathOption(gatePath), autoHideRoot |-> TRUE,
     shield |-> spread(JObj(NoProps), shield)]

\* index.ts: buildRuntimeConfig
buildRuntimeConfig(options) ==
    spread(JObj([gatePath |-> options.gatePath,
                 autoHideRoot |-> JBool(options.autoHideRoot)]),
           options.shield)

\* index.ts: what configScript assigns to window.__ASTRO_SHIELD_CONFIG__ in a
\* fresh document, Object.assign({}, undefined, JSON.parse(JSON.stringify(c)))
configScript(c) == JSONparse(JSONstringify(c))

RECURSIVE Strings(_)
Strings(n) ==
    IF n = 0 THEN {<<>>}
    ELSE LET S == Strings(n - 1)
         IN S \cup {Append(x, c) : x \in S, c \in InputChar}

\* Raw values of a configuration field: every string up to MaxLen and the
\* values that are not strings
RawValues ==
    {JStr(x) : x \in Strings(MaxLen)}
    \cup {Undefined, JNull, JNum(5), JBool(TRUE), JObj(NoProps)}

\* The free-text fields all holding v
ShieldOf(v) ==
    JObj([shieldNamespace |-> v, honeypotPrefix |-> v, decoyPrefix |-> v])

InitConfig ==
    \E v \in RawValues, via \in {"options", "overrides"} :
        InitWith(IF via = "options"
                 THEN configScript(buildRuntimeConfig(resolveOptions(
                          IF isString(v) THEN v ELSE Undefined, ShieldOf(v))))
                 ELSE DefaultInjected,
                 IF via = "overrides"
                 THEN [EmptyStorage EXCEPT ![CONFIG_STORAGE_KEY] =
                          JSONstringify(spread(JObj([gatePath |-> v]),
                                               ShieldOf(v)))]
                 ELSE EmptyStorage,
                 EmptyStorage, NoFailure)

NextConfig ==
    \/ PageLoad(Loc(P_PAGE, <<>>))
    \/ RuntimeStart
    \/ BackendsChange("lset")

SpecConfig == InitConfig /\ [][NextConfig]_vars

\* /^[a-z0-9_-]*$/
OnlyAllowed(x) == \A i \in 1..Len(x) : x[i] \in Lower \cup Digit \cup {"_", "-"}

Grammar(c) ==
    /\ OnlyAllowed(c.shieldNamespace) /\ c.shieldNamespace # <<>>
    /\ OnlyAllowed(c.honeypotPrefix) /\ c.honeypotPrefix # <<>>
    /\ OnlyAllowed(c.decoyPrefix)
    /\ c.gatePath # <<>> /\ c.gatePath[1] = "/"

\* C10, as claimed: whatever the raw input, the namespace and the two
\* prefixes resolved by the init script and by the runtime script consist of
\* characters of [a-z0-9_-] only, the resolved gate path starts with "/",
\* and none of them is empty except possibly the decoy prefix.
C10_SanitizationGrammar ==
    /\ Loaded => Grammar(initCfg)
    /\ RuntimeLoaded => Grammar(rtCfg)

\* The gatePath, shieldNamespace, honeypotPrefix and decoyPrefix of a
\* configuration object, as JSON.stringify writes them
FourOf(config) ==
    JSONstringify(JObj([n \in {"gatePath", "shieldNamespace",
                               "honeypotPrefix", "decoyPrefix"}
                          |-> Prop(config, n)]))

HP_TRIPPED == <<"h", "p", "_", "t", "r", "i", "p", "p", "e", "d">>

\* The runtime script resolves the namespace and the gate path of the init
\* script, so both name the trip record alike
SameNames ==
    /\ rtCfg.shieldNamespace = initCfg.shieldNamespace
    /\ rtCfg.gatePath = initCfg.gatePath
    /\ runtimeName(rtCfg.shieldNamespace, HP_TRIPPED)
           = runtimeName(initCfg.shieldNamespace, HP_TRIPPED)

\* C12, as claimed: after the init script has run, both backends hold under
\* __ASTRO_SHIELD_CONFIG_OVERRIDES__ the four values it published on
\* window.__ASTRO_SHIELD_CONFIG__, and the runtime script resolves the same
\* namespace and gate path.
C12_AsClaimed ==
    [][/\ ev'.op = "load" =>
              /\ ls'[CONFIG_STORAGE_KEY] = FourOf(windowConfig')
              /\ ss'[CONFIG_STORAGE_KEY] = FourOf(windowConfig')
       /\ (Loaded' /\ RuntimeLoaded') => SameNames']_vars

\* C12, amended: after the init script has run, every backend whose setItem
\* does not throw holds under __ASTRO_SHIELD_CONFIG_OVERRIDES__ the four
\* values published on window.__ASTRO_SHIELD_CONFIG__ (a backend whose
\* setItem throws keeps what it held), and the runtime script resolves the
\* namespace and the gate path of the init script, so that
\* <ns>_hp_tripped is the same key in both.
C12_NamingConsistency ==
    [][/\ ev'.op = "load" =>
              /\ ~fail.lset => ls'[CONFIG_STORAGE_KEY] = FourOf(windowConfig')
              /\ fail.lset => ls'[CONFIG_STORAGE_KEY] = ls[CONFIG_STORAGE_KEY]
              /\ ~fail.sset => ss'[CONFIG_STORAGE_KEY] = FourOf(windowConfig')
       /\ (Loaded' /\ RuntimeLoaded') => SameNames']_vars

\* The runtime script has started after an init script that resolved a
\* namespace of its own from a raw value and persisted it
C12_Witness ==
    /\ Loaded /\ RuntimeLoaded
    /\ initCfg.shieldNamespace # DEFAULT_NAMESPACE
    /\ Prop(initCfg.base, "shieldNamespace") # JStr(initCfg.shieldNamespace)
    /\ ~fail.lset
    /\ ls[CONFIG_STORAGE_KEY] = FourOf(windowConfig)
    /\ SameNames

----------------------------------------------------------------------------
(* SpecBuild: the build-time resolver and the in-page resolvers over raw
   options and raw stored overrides *)

\* astroShield({ gatePath, shield }) at build time: resolveOptions, and
\* "astro:config:setup" injecting the configuration into every page, once,
\* before any page is served.  A build that throws leaves the site as it was.
AstroShield(gatePath, shield) ==
    /\ ev.op = "start"
    /\ IF IsThrown(resolveOptions(gatePath, shield).gatePath)
       THEN UNCHANGED <<injected, windowConfig>>
       ELSE /\ injected' = configScript(buildRuntimeConfig(
                               resolveOptions(gatePath, shield)))
            /\ windowConfig' = injected'
    /\ ev' = [op |-> "build", gatePath |-> gatePath,
              threw |-> IsThrown(resolveOptions(gatePath, shield).gatePath)]
    /\ UNCHANGED <<gate, engine, lastTrip, trips,
                   initCfg, rtCfg, ls, ss, fail, now, loc,
                   visibility, redirectScheduled, redirectTarget,
                   redirectTimers, navigated>>

\* Raw gatePath values: the values that are not strings, the empty string,
\* blank strings and paths
GatePathValues ==
    {Undefined, JNull, JNum(0), JNum(5), JBool(FALSE), JBool(TRUE),
     JObj(NoProps)}
    \cup {JStr(x) : x \in Strings(MaxLen - 1)}

InitBuild ==
    \E v \in GatePathValues :
        InitWith(DefaultInjected,
                 [EmptyStorage EXCEPT ![CONFIG_STORAGE_KEY] =
                     JSONstringify(JObj([gatePath |-> v]))],
                 EmptyStorage, NoFailure)

NextBuild ==
    \/ \E v \in GatePathValues : AstroShield(v, JObj(NoProps))
    \/ PageLoad(Loc(P_PAGE, <<>>))
    \/ RuntimeStart
    \/ InitRuntime

SpecBuild == InitBuild /\ [][NextBuild]_vars

\* A gatePath that is not a string, or is empty once trimmed
NoGatePath(v) == ~isString(v) \/ trim(v.s) = <<>>

\* C11, as claimed: the build-time resolver returns a configuration for
\* every gatePath option and the in-page resolvers for every configured
\* gatePath, none of them throws, and a gatePath that is not a string or is
\* empty resolves to "/gate".
C11_ResolverTotal ==
    /\ ev.op = "build" =>
           /\ ~ev.threw
           /\ NoGatePath(ev.gatePath) =>
                  Prop(injected, "gatePath") = JStr(DEFAULT_GATE_PATH)
    /\ (Loaded /\ NoGatePath(Prop(initCfg.base, "gatePath"))) =>
           initCfg.gatePath = DEFAULT_GATE_PATH
    /\ (RuntimeLoaded /\ NoGatePath(Prop(windowConfig, "gatePath"))) =>
           rtCfg.gatePath = DEFAULT_GATE_PATH

----------------------------------------------------------------------------
(* SpecReason: reason codes of traps that fire at different times, and
   generateHash over lists of parts *)

\* Lists of at most two parts: one string shorter than MaxLen, or two
\* strings that are shorter still
PartLists ==
    {<<>>} \cup {<<x>> : x \in Strings(MaxLen - 1)}
    \cup {<<x, y>> : x, y \in Strings(MaxLen - 2)}

Z9 == <<"z", "9">>

InitReason ==
    \E ns \in {DEFAULT_NAMESPACE, Z9} :
        InitWith(JObj([gatePath |-> JStr(DEFAULT_GATE_PATH),
                       autoHideRoot |-> JBool(TRUE),
                       shieldNamespace |-> JStr(ns)]),
                 EmptyStorage, EmptyStorage, NoFailure)

NextReason ==
    \/ PageLoad(Loc(P_PAGE, <<>>))
    \/ RuntimeStart
    \/ InitRuntime
    \/ \E g \in 1..MaxInits, trap \in {HoneypotInput, DecoyClick} :
           TrapEvent(g, trap)
    \/ \E d \in ClockSteps : Tick(d)
    \/ \E parts \in PartLists : GenerateHash(parts)

SpecReason == InitReason /\ [][NextReason]_vars

\* The trip record a backend holds, as an object
TripOf(b) == JSONparse(b[SHIELD_STORAGE_KEYS.honeypotTripped])

\* C13, as claimed: when a trap fires that has fired before under the same
\* configuration, its reason code equals the reason code of the earlier
\* trip exactly when the two trip times fall in the same 10-minute bucket
\* floor(now / 600000).
C13_BucketedByTripTime ==
    [][(/\ ev'.op = "trip"
        /\ ls[SHIELD_STORAGE_KEYS.honeypotTripped].k = "json"
        /\ Prop(TripOf(ls), "event") = JStr(ev'.event))
       => ((Prop(TripOf(ls), "timestamp").n \div TIME_BUCKET_MS
               = now \div TIME_BUCKET_MS)
           <=> Prop(TripOf(ls), "reason") = JStr(ev'.reason))]_vars

\* The number a base-36 numeral stands for, as two 16-bit halves (the upper
\* half exceeds 65535 when the number does not fit 32 bits)
RECURSIVE parse36(_)
parse36(numeral) ==
    IF numeral = <<>> THEN U32(0, 0)
    ELSE LET rest == parse36(SubSeq(numeral, 1, Len(numeral) - 1))
             digit == CHOOSE d \in 0..35 :
                          Digits36[d + 1] = numeral[Len(numeral)]
             low == rest.lo * 36 + digit
         IN U32(rest.hi * 36 + low \div 65536, low % 65536)

\* The characters of the non-empty parts joined by "|"
RECURSIVE Joined(_)
Joined(parts) ==
    IF parts = <<>> THEN <<>>
    ELSE IF Head(parts) = <<>> THEN Joined(Tail(parts))
    ELSE IF Joined(Tail(parts)) = <<>> THEN Head(parts)
    ELSE Head(parts) \o <<"|">> \o Joined(Tail(parts))

\* hash is the 8-character base-36 rendering of h_n over the parts
IsHashOf(hash, parts) ==
    /\ Len(hash) = 8
    /\ \A i \in 1..8 : hash[i] \in Digit \cup Lower
    /\ parse36(hash) = hashLoop(Joined(parts))

\* The parts buildReason hands to generateHash for the trap whose detail
\* string is event
PartsOf(event) ==
    LET trap == CHOOSE t \in {HoneypotInput, DecoyClick, RapidClicks,
                              NoUserInteraction} : t.detail = event
    IN <<rtCfg.shieldNamespace,
         IF trap.type = DECOY THEN rtCfg.decoyPrefix ELSE rtCfg.honeypotPrefix,
         trap.type, trap.detail, trap.extra,
         numberToString(engine.timeBucket)>>

\* C14: generateHash(parts) is the base-36 rendering, left-padded with "0"
\* to exactly 8 characters of [0-9a-z], of h_n, where h_0 = 0 and
\* h_i = (h_(i-1) * 31 + charCode_i) mod 2^32 over the characters of the
\* non-empty parts joined by "|"; this holds for the hash applied to a list
\* of parts and for the hash inside the reason code of every trap that fires.
C14_HashArithmetic ==
    /\ ev.op = "hash" => IsHashOf(ev.ret, ev.parts)
    /\ ev.op = "trip" =>
           /\ Len(ev.reason) > 8
           /\ IsHashOf(SubSeq(ev.reason, Len(ev.reason) - 7, Len(ev.reason)),
                       PartsOf(ev.event))

\* A decoy link has been clicked: the seed is long enough for the hash to
\* wrap around 2^32 more than once, and the rendering needs padding
C14_Witness ==
    /\ ev.op = "trip"
    /\ ev.event = DecoyClick.detail
    /\ Len(Joined(PartsOf(ev.event))) > 30
    /\ hashLoop(Joined(PartsOf(ev.event))).hi > 0
    /\ ev.reason[Len(ev.reason) - 7] = "0"

----------------------------------------------------------------------------
(* SpecUrl: the gate URLs of the page guard and of the honeypot engine, and
   the trip protocol, over gate paths with and without "?", locations with
   and without a query, and backends that reject writes *)

G_QUERY == <<"/", "g", "?", "x">>
Q_PAGE == <<"?", "q", "=", "1">>

InitUrl ==
    \E gatePath \in {DEFAULT_GATE_PATH, G_QUERY}, token \in {Null, GoodToken} :
        InitWith(JObj([gatePath |-> JStr(gatePath),
                       autoHideRoot |-> JBool(TRUE)]),
                 [EmptyStorage EXCEPT ![TOKEN_KEY] = token],
                 EmptyStorage, NoFailure)

NextUrl ==
    \/ \E q \in {<<>>, Q_PAGE} : PageLoad(Loc(P_PAGE, q))
    \/ RuntimeStart
    \/ engine.gen = 0 /\ InitRuntime
    \/ \E trap \in {HoneypotInput, DecoyClick} : TrapEvent(1, trap)
    \/ \E c \in {"lset", "sset"} : BackendsChange(c)

SpecUrl == InitUrl /\ [][NextUrl]_vars

\* The record a trip at time t leaves under <ns>_hp_tripped, and the reason
\* under <ns>_hp_reason, in backend b
HoldsTrip(b, trip, t, pathname) ==
    /\ b[SHIELD_STORAGE_KEYS.honeypotTripped].k = "json"
    /\ TripOf(b) = JObj([reason |-> JStr(trip.reason),
                         timestamp |-> JNum(t),
                         path |-> JStr(pathname),
                         category |-> JStr(trip.category),
                         event |-> JStr(trip.event)])
    /\ b[SHIELD_STORAGE_KEYS.honeypotReason] = PlainText(trip.reason)

\* The two trap keys of backend b are left alone by the step
KeepsTrip(b, c) ==
    /\ c[SHIELD_STORAGE_KEYS.honeypotTripped]
           = b[SHIELD_STORAGE_KEYS.honeypotTripped]
    /\ c[SHIELD_STORAGE_KEYS.honeypotReason]
           = b[SHIELD_STORAGE_KEYS.honeypotReason]

Q_NEXT == <<"n", "e", "x", "t", "=">>
Q_REASON == <<"r", "e", "a", "s", "o", "n", "=">>
Q_HP == <<"h", "p", "=", "1">>

\* <path>? or <path>& when the path holds a "?" already
WithSeparator(path) ==
    path \o (IF \E i \in 1..Len(path) : path[i] = "?" THEN <<"&">>
             ELSE <<"?">>)

\* next=<encodeURIComponent(pathname + search)>
NextParam(location) ==
    Q_NEXT \o encodeURIComponent(location.pathname \o location.search)

GuardUrlStep ==
    /\ GateStep
    /\ redirectTarget'.k = "url"
    /\ redirectTarget' # redirectTarget

\* <gatePath>?[hp=1&]next=<encoded path and query>
GuardUrl(gatePath, location, hp) ==
    Url(WithSeparator(gatePath)
        \o (IF hp THEN Q_HP \o <<"&">> ELSE <<>>)
        \o NextParam(location))

\* C16, as claimed: every gate URL is
\* <gatePath>?[hp=1&]next=<encoded path and query>[&reason=<code>] in that
\* order, hp=1 being present exactly when a trap is active or has just
\* fired and reason only on the URLs of the engine.
C16_AsClaimed ==
    [][/\ GuardUrlStep =>
              redirectTarget' = GuardUrl(initCfg'.gatePath, loc', TrapActive)
       /\ ev'.op = "trip" =>
              navigated' = Url(GuardUrl(rtCfg.gatePath, loc, TRUE).s
                               \o <<"&">> \o Q_REASON \o ev'.reason)]_vars

\* C16, amended: a gate URL of the page guard is
\* <gatePath>?[hp=1&]next=<encoded path and query>, with hp=1 exactly when
\* a trap is active; a gate URL of the engine is
\* <gatePath>?hp=1&reason=<code>&next=<encoded path and query>; the first
\* separator is "&" when gatePath holds a "?".
C16_GateUrlShape ==
    [][/\ GuardUrlStep =>
              redirectTarget' = GuardUrl(initCfg'.gatePath, loc', TrapActive)
       /\ ev'.op = "trip" =>
              navigated' = Url(WithSeparator(rtCfg.gatePath)
                               \o Q_HP \o <<"&">> \o Q_REASON \o ev'.reason
                               \o <<"&">> \o NextParam(loc))]_vars

\* Under a gate path with a "?", the engine has sent the visitor to the gate
\* and then the guard has, from a page with a query, the trap being active
C16_Witness ==
    /\ initCfg.k = "cfg" /\ initCfg.gatePath = G_QUERY
    /\ ev.op = "load"
    /\ loc.search # <<>>
    /\ lastTrip >= 0
    /\ redirectScheduled
    /\ CarriesHp(redirectTarget)

----------------------------------------------------------------------------
(* SpecClicks: the rapid-click heuristic over clicks 0, 50, 100, ...
   milliseconds apart *)

ClickGaps == {50, 100}

InitClicks == InitWith(DefaultInjected, EmptyStorage, EmptyStorage, NoFailure)

NextClicks ==
    \/ RuntimeStart
    \/ engine.gen = 0 /\ InitRuntime
    \/ Click(1)
    \/ \E d \in ClickGaps : Wait(d, MaxClickSpan)

SpecClicks == InitClicks /\ [][NextClicks]_vars

\* The clicks among `clicks` that fall within the 100 ms before t, t included
InWindow(clicks, t) == {i \in 1..Len(clicks) : t - clicks[i] < 100}

\* C17, as claimed: the click listener fires the trap exactly when the click
\* is the fourth or later of the clicks that fall within one 100 ms window.
C17_RapidClicks ==
    [][(ev'.op \in {"click", "trip"} /\ ev'.by = 1) =>
          (ev'.op = "trip"
           <=> Cardinality(InWindow(engine'.track[1].clicks, now)) > 3)]_vars


----------------------------------------------------------------------------
(* SpecIdle: initialisations, interaction, the idle timers and the tab *)

IdleWaits == {60000, 120000}

Inits == 1..MaxInits

InitIdle == InitWith(DefaultInjected, EmptyStorage, EmptyStorage, NoFailure)

NextIdle ==
    \/ RuntimeStart
    \/ InitRuntime
    \/ \E g \in Inits : TrapEvent(g, HoneypotInput)
    \/ \E g \in Inits : Pointer(g)
    \/ \E g \in Inits : KeyDown(g)
    \/ \E g \in Inits : IdleExpire(g)
    \/ VisibilityChange
    \/ \E d \in IdleWaits : Wait(d, MaxIdleSpan)

SpecIdle == InitIdle /\ [][NextIdle]_vars

\* The step is a call of tripHoneypot for the no_user_interaction trap
IdleTrip == ev'.op = "trip" /\ ev'.event = NoUserInteraction.detail

\* The step is a run of the idle callback of the timer x
IdleRun(x) ==
    /\ x \in engine.timers
    /\ x \notin engine'.timers
    /\ engine'.gen = engine.gen

\* C18: an initialisation arms one timer, due 120 s later; the
\* no_user_interaction trap fires only in the callback of a pending timer
\* that is due, the callback runs at most once for an initialisation, and it
\* fires the trap exactly when the document is not hidden and the
\* initialisation has counted no pointer event and no keydown.
C18_IdleHeuristic ==
    [][/\ ev'.op = "init" =>
            [id |-> engine'.gen, due |-> now + 120000] \in engine'.timers
       /\ IdleTrip => \E x \in engine.timers : x.id = ev'.by /\ IdleRun(x)
       /\ \A x \in engine.timers :
            IdleRun(x) =>
              /\ now >= x.due
              /\ engine'.track[x.id].idleRuns = 1
              /\ IdleTrip <=>
                   /\ ~engine.hidden
                   /\ engine.track[x.id].pointerInteractions = 0
                   /\ engine.track[x.id].keyPresses = 0]_vars

C18_Witness ==
    /\ ev.op = "trip"
    /\ ev.event = NoUserInteraction.detail
    /\ ev.by = 2
    /\ ev.at > T0 + 120000
    /\ engine.track[2].idleRuns = 1

ListenerOps == {"trip", "trap", "pointer", "keydown", "click", "idle"}

\* C19: after any sequence of initialisations at most one controller is not
\* aborted and at most one idle timer is pending, both of the latest
\* initialisation, and a listener or timer callback that runs belongs to
\* the latest initialisation.
C19_ReinitDetaches ==
    /\ Cardinality(engine.live) <= 1
    /\ Cardinality(engine.timers) <= 1
    /\ engine.live \subseteq {engine.gen}
    /\ \A x \in engine.timers : x.id = engine.gen
    /\ ev.op \in ListenerOps => ev.by = engine.gen

C19_Witness ==
    /\ engine.gen = MaxInits
    /\ ev.op = "trip"
    /\ ev.event = HoneypotInput.detail
    /\ ev.by = MaxInits
    /\ engine.timers = {}


----------------------------------------------------------------------------
(* SpecGuard: the root's visibility *)

\* C20, as claimed: with autoHideRoot enabled, a step that leaves the root
\* visible on a path that is not exempt, having found it not visible or
\* having swapped the page in, happens only while the stored token is valid
\* and no trap record is active.
C20_ContentHidden ==
    [][(/\ visibility' = "visible"
        /\ (visibility # "visible" \/ ev'.op = "swap")
        /\ autoHides(windowConfig')
        /\ ~PathExempt(loc'.pathname, initCfg'.gatePath))
       => (TokenValid /\ ~TrapActive)]_vars


----------------------------------------------------------------------------
(* SpecPenalty: the effective difficulty over base difficulties, penalties,
   caps and violation counts *)

BaseDifficulties == {0, 8, 12, 20}
Penalties == {0, 1, 2, 5}
Caps == {0, 8, 16}

\* effectiveDifficulty(base, honeypotPenalty, maxPenaltyDiff, k), called on
\* its own
EffectiveDifficulty(base, penalty, cap, k) ==
    /\ ev' = [op |-> "difficulty", base |-> base, penalty |-> penalty,
              cap |-> cap, k |-> k,
              ret |-> effectiveDifficulty(base, penalty, cap, k)]
    /\ UNCHANGED <<gate, engine, lastTrip, trips, injected, windowConfig,
                   initCfg, rtCfg, ls, ss, fail, now, loc, visibility,
                   redirectScheduled, redirectTarget,
                   redirectTimers, navigated>>

\* The first call, with no violation
FirstDifficulty(base, penalty, cap) ==
    /\ ev.op = "start"
    /\ EffectiveDifficulty(base, penalty, cap, 0)

\* The call after one more violation
NextDifficulty ==
    /\ ev.op = "difficulty"
    /\ ev.k < MaxViolations
    /\ EffectiveDifficulty(ev.base, ev.penalty, ev.cap, ev.k + 1)

InitPenalty == InitWith(DefaultInjected, EmptyStorage, EmptyStorage, NoFailure)

NextPenalty ==
    \/ \E base \in BaseDifficulties, penalty \in Penalties, cap \in Caps :
           FirstDifficulty(base, penalty, cap)
    \/ NextDifficulty

SpecPenalty == InitPenalty /\ [][NextPenalty]_vars

\* C21: the effective difficulty with k violations is base + k * penalty
\* when that is at most maxPenaltyDiff and maxPenaltyDiff otherwise; it never
\* exceeds maxPenaltyDiff and does not go down when k goes up by one.
C21_EffectiveDifficulty ==
    [][ev'.op = "difficulty" =>
          /\ ev'.base + ev'.k * ev'.penalty <= ev'.cap
                => ev'.ret = ev'.base + ev'.k * ev'.penalty
          /\ ev'.base + ev'.k * ev'.penalty > ev'.cap => ev'.ret = ev'.cap
          /\ ev'.ret <= ev'.cap
          /\ ev.op = "difficulty" => ev'.ret >= ev.ret]_vars

C21_Witness ==
    /\ ev.op = "difficulty"
    /\ ev.k = 2
    /\ ev.base + ev.penalty <= ev.cap
    /\ ev.base + 2 * ev.penalty > ev.cap
    /\ ev.ret = ev.cap


----------------------------------------------------------------------------
(* SpecGate: the gate page, from its load to the navigation to the
   destination *)

Q_AMP == <<"?", "q", "&", "r">>
Q_NEXT_B == <<"?", "n", "e", "x", "t", "=", "/", "b">>

\* Destinations: /b, which needs no escaping, and /a?q&r, which does
Destinations == {<<"/", "b">>, P_PAGE \o Q_AMP}

\* /gate; /gate?next=/b as a visitor types it; and the gate URL the page
\* guard builds on /a?q&r with a trap active
GateLocations ==
    {Loc(P_GATE, <<>>), Loc(P_GATE, Q_NEXT_B),
     parseUrl(buildGateRedirectUrl(P_GATE, Loc(P_PAGE, Q_AMP), TRUE).s)}

\* Shield options: the defaults with a short timeout and delay; no floor, no
\* delay, no near misses and no time validation; a floor above the timeout
GateConfigs ==
    {[ShieldDefaults EXCEPT !.timeoutMs = 1200, !.redirectDelayMs = 300],
     [ShieldDefaults EXCEPT !.timeoutMs = 1200, !.redirectDelayMs = 0,
                            !.minSolveDurationMs = 0,
                            !.enableNearMisses = FALSE,
                            !.enableTimeValidation = FALSE,
                            !.redirectTo = <<"/", "h">>],
     [ShieldDefaults EXCEPT !.timeoutMs = 600, !.redirectDelayMs = 300,
                            !.minSolveDurationMs = 900,
                            !.enableTimeValidation = FALSE]}

Proofs == {<<"7">>, <<"4", "2">>}
Digests == {HEX16}
GateWaits == {300, 600}

\* Stored tokens: none, one minted at T0, one that expires at T0, one that
\* expired a second before
GateTokens ==
    {Null, GoodToken, TokenRecord(JNum(T0), JStr(GoodTokenString)),
     TokenRecord(JNum(T0 - 1000), JStr(GoodTokenString))}

GateFailures == {NoFailure, [NoFailure EXCEPT !.lset = TRUE, !.sset = TRUE]}

InitGate ==
    \E tok \in GateTokens, f \in GateFailures :
        InitWith(DefaultInjected, [EmptyStorage EXCEPT ![TOKEN_KEY] = tok],
                 EmptyStorage, f)

NextGate ==
    \/ \E p \in GateLocations : PageLoad(p)
    \/ \E c \in GateConfigs : GateBoot(c)
    \/ GateEntry
    \/ \E kind \in {"exact", "near"}, proof \in Proofs, digest \in Digests :
           SolverFind(kind, proof, digest)
    \/ SolverRelease
    \/ SolverTimeout
    \/ SolverError
    \/ Retry
    \/ GateRedirect
    \/ AbortSolve
    \/ \E d \in GateWaits : Wait(d, MaxGateSpan)

SpecGate == InitGate /\ [][NextGate]_vars



\* C24: the status of the gate moves along INITIALIZING, POW_START, one of
\* POW_COMPLETE, POW_INCOMPLETE and ERROR, then REDIRECTING.  It is
\* initializing only when the gate script starts; POW_START is entered from
\* INITIALIZING, or from ERROR or POW_INCOMPLETE by a retry; the three
\* outcomes are entered from POW_START only; REDIRECTING is entered from
\* POW_COMPLETE, or from INITIALIZING by the bypass.
C24_StatusTransitions ==
    [][gate'.status # gate.status =>
          /\ gate'.status = "" => ev'.op = "load"
          /\ gate'.status = GATE_STATUS.INITIALIZING =>
                 gate.status = "" /\ ev'.op = "boot"
          /\ gate'.status = GATE_STATUS.POW_START =>
                 \/ gate.status = GATE_STATUS.INITIALIZING
                 \/ /\ gate.status \in {GATE_STATUS.ERROR,
                                        GATE_STATUS.POW_INCOMPLETE}
                    /\ ev'.op = "retry"
          /\ gate'.status \in {GATE_STATUS.POW_COMPLETE,
                               GATE_STATUS.POW_INCOMPLETE,
                               GATE_STATUS.ERROR} =>
                 gate.status = GATE_STATUS.POW_START
          /\ gate'.status = GATE_STATUS.REDIRECTING =>
                 \/ gate.status = GATE_STATUS.POW_COMPLETE
                 \/ /\ gate.status = GATE_STATUS.INITIALIZING
                    /\ ev'.op = "bypass"
          /\ gate'.status \in {"", GATE_STATUS.INITIALIZING,
                               GATE_STATUS.POW_START,
                               GATE_STATUS.POW_COMPLETE,
                               GATE_STATUS.POW_INCOMPLETE,
                               GATE_STATUS.ERROR,
                               GATE_STATUS.REDIRECTING}]_vars

\* The gate has redirected after a first attempt that failed and a retry
C24_Witness ==
    /\ gate.status = GATE_STATUS.REDIRECTING
    /\ gate.attempt = 2
    /\ ev.op = "redirect"

\* The token stored in localStorage has not expired: its exp is a number
\* greater than the clock
LiveToken ==
    /\ ls[TOKEN_KEY].k = "json"
    /\ Prop(ls[TOKEN_KEY].v, "exp").t = "number"
    /\ Prop(ls[TOKEN_KEY].v, "exp").n > now

\* C25: on entry the gate takes the bypass exactly when the stored token has
\* not expired.  The bypass goes straight to redirecting: no solve starts,
\* nothing is minted and the stored token is left as it was.  With no token
\* or an expired one the solve starts, and the gate redirects only after a
\* token has been minted.
C25_Bypass ==
    [][/\ ev'.op = "bypass" => LiveToken
       /\ ev'.op = "solve" => ~LiveToken
       /\ ev'.op = "bypass" =>
              /\ gate'.status = GATE_STATUS.REDIRECTING
              /\ gate'.solver = "idle"
              /\ gate'.attempt = 0
              /\ gate'.minted = 0
              /\ ls' = ls
              /\ ss' = ss
       /\ ev'.op = "solve" =>
              /\ gate'.status = GATE_STATUS.POW_START
              /\ gate'.solver = "running"
       /\ (gate'.status = GATE_STATUS.REDIRECTING /\ ev'.op = "redirect") =>
              gate.solver = "solved" /\ gate.minted >= 1]_vars

\* The gate has taken the bypass for a token that an earlier visit of the
\* gate minted after its solve
C25_Witness ==
    /\ ev.op = "bypass"
    /\ ls[TOKEN_KEY] \notin GateTokens
    /\ gate.status = GATE_STATUS.REDIRECTING
    /\ gate.minted = 0
    /\ now > T0

\* The token record the storage adapter reads back, absent when there is none
StoredToken(l, s) == storage_get(l, s, fail, TOKEN_KEY).value

\* The record is what a mint at time t with the options cfg writes: exp is
\* t + tokenTtlMinutes * 60000 and the token is a base64 text, ".", 16 hex
MintedAt(rec, t, cfg) ==
    /\ rec.k = "json"
    /\ DOMAIN rec.v.f = {"token", "exp"}
    /\ Prop(rec.v, "exp") = JNum(t + cfg.tokenTtlMinutes * 60000)
    /\ IsTokenForm(Prop(rec.v, "token"))

CarriesNext(search, D) ==
    \E before \in {<<"?">>, <<"?", "h", "p", "=", "1", "&">>},
       value \in {D, encodeURIComponent(D)} :
        /\ search = before \o NEXT_PARAM \o <<"=">> \o value
        /\ ~includes(value, "&")

C28_MinSolveDuration ==
    [][/\ ev'.op = "solved" =>
              /\ gate'.solver = "solved"
              /\ now - gate.startedAt >= gate.cfg.minSolveDurationMs
              /\ gate'.duration = now - gate.startedAt
       /\ gate'.solver = "solved" =>
              gate'.duration >= gate'.cfg.minSolveDurationMs
       /\ ev'.op = "held" =>
              /\ now - gate.startedAt < gate.cfg.minSolveDurationMs
              /\ gate'.solver = "running"
              /\ gate'.status = GATE_STATUS.POW_START
              /\ gate'.found.at = now
              /\ Timer("hold", gate.startedAt + gate.cfg.minSolveDurationMs)
                     \in gate'.timers
       /\ (gate.solver = "running" /\ gate.found # NoSolution) =>
              \/ gate'.found = gate.found
              \/ ev'.op \in {"abort", "load"}
       /\ ev'.op # "rejected"]_vars

\* A solution found before the floor has been reported, at the floor
C28_Witness ==
    /\ gate.solver = "solved"
    /\ gate.found.at < gate.startedAt + gate.cfg.minSolveDurationMs
    /\ gate.duration = gate.cfg.minSolveDurationMs
    /\ gate.cfg.minSolveDurationMs > 0

\* C30: an abort of the in-flight solve leaves the solver idle with no timer
\* pending, and from then on the attempt neither reports solved nor mints a
\* token: the gate stays as the abort left it until the page is loaded anew.
C30_Cancellation ==
    [][/\ ev'.op = "abort" =>
              /\ gate.solver = "running"
              /\ gate'.solver = "idle"
              /\ gate'.timers = {}
              /\ gate'.aborted
              /\ gate'.minted = gate.minted
              /\ ls' = ls
              /\ ss' = ss
       /\ gate.aborted =>
              \/ gate' = gate
              \/ ev'.op = "load" /\ gate' = NoGate
       /\ gate.aborted => ev'.op \notin {"solved", "redirect"}]_vars

\* A solve has been aborted while its solution was held, and time has passed
\* beyond the floor and the ceiling of the attempt
C30_Witness ==
    /\ gate.aborted
    /\ gate.solver = "idle"
    /\ gate.timers = {}
    /\ gate.minted = 0
    /\ now >= gate.startedAt + gate.cfg.timeoutMs
    /\ ev.op = "wait"


----------------------------------------------------------------------------
(* SpecGateLive: the gate page with its timers firing and time passing *)

InitGateLive == InitWith(DefaultInjected, EmptyStorage, EmptyStorage, NoFailure)

NextGateLive ==
    \/ PageLoad(Loc(P_GATE, <<>>))
    \/ \E c \in GateConfigs : GateBoot(c)
    \/ GateEntry
    \/ SolverFind("exact", <<"7">>, HEX16)
    \/ SolverRelease
    \/ SolverTimeout
    \/ SolverError
    \/ Retry
    \/ GateRedirect
    \/ AbortSolve
    \/ \E d \in GateWaits : Wait(d, MaxGateSpan)

\* The host runs a timer callback that is due, and the clock advances
SpecGateLive ==
    /\ InitGateLive
    /\ [][NextGateLive]_vars
    /\ WF_vars(SolverTimeout)
    /\ WF_vars(SolverRelease)
    /\ WF_vars(\E d \in GateWaits : Wait(d, MaxGateSpan))

\* The ceiling of the running attempt has elapsed and nothing was found
Exhausted ==
    /\ gate.solver = "running"
    /\ gate.found = NoSolution
    /\ now - gate.startedAt >= gate.cfg.timeoutMs

\* C29: every solve that has started leaves the running state; an attempt
\* whose ceiling has elapsed with no solution found ends in incomplete, with
\* the status pow-incomplete, never in solved and never left running (unless
\* it is aborted or the page is left).
C29_SolveTimeout ==
    /\ (gate.solver = "running") ~> (gate.solver # "running")
    /\ Exhausted ~> (gate.solver \in {"incomplete", "idle"})
    /\ [][/\ ev'.op = "timeout" =>
                 /\ Exhausted
                 /\ gate'.solver = "incomplete"
                 /\ gate'.status = GATE_STATUS.POW_INCOMPLETE
                 /\ gate'.timers = {}
                 /\ gate'.minted = gate.minted
          /\ (Exhausted /\ gate'.solver # "running") =>
                 \/ ev'.op = "timeout"
                 \/ ev'.op \in {"abort", "load"} /\ gate'.solver = "idle"]_vars

\* An attempt has ended in incomplete at its ceiling
C29_Witness ==
    /\ ev.op = "timeout"
    /\ gate.solver = "incomplete"
    /\ gate.status = GATE_STATUS.POW_INCOMPLETE
    /\ gate.found = NoSolution
    /\ now >= gate.startedAt + gate.cfg.timeoutMs


----------------------------------------------------------------------------
(* SpecProgress: the gate page with the progress the search loop reports *)

NextProgress ==
    \/ NextGateLive
    \/ SolverYield

SpecProgress == InitGateLive /\ [][NextProgress]_vars

\* C31: the progress the gate reports is a number from 0 to 100 at every
\* moment, and it is 100 when the status is pow-complete.
C31_Progress ==
    /\ gate.progress \in 0..100
    /\ gate.status = GATE_STATUS.POW_COMPLETE => gate.progress = 100

\* The loop has yielded after the ceiling of the attempt, the timeout
\* callback not having run yet
C31_Witness ==
    /\ ev.op = "yield"
    /\ ev.elapsedMs > gate.cfg.timeoutMs
    /\ gate.progress = 100
    /\ gate.status = GATE_STATUS.POW_START

----------------------------------------------------------------------------
(* SpecStack: a visitor on a guarded page, the traps of that page, the gate
   and the way back *)

StackConfigs ==
    {[ShieldDefaults EXCEPT !.timeoutMs = 600, !.redirectDelayMs = 0,
                            !.minSolveDurationMs = 300]}

InitStack == InitWith(DefaultInjected, EmptyStorage, EmptyStorage, NoFailure)

NextStack ==
    \/ ev.op = "start" /\ PageLoad(Loc(P_PAGE, Q_AMP))
    \/ TimerFire
    \/ Follow
    \/ RuntimeStart
    \/ engine.gen = 0 /\ InitRuntime
    \/ loc.pathname = P_PAGE /\ TrapEvent(1, HoneypotInput)
    \/ \E c \in StackConfigs : GateBoot(c)
    \/ GateEntry
    \/ SolverFind("exact", <<"7">>, HEX16)
    \/ SolverRelease
    \/ GateRedirect
    \/ gate.solver = "running" /\ \E d \in {300} : Wait(d, MaxGateSpan)

SpecStack == InitStack /\ [][NextStack]_vars

\* The traps that fired in the ten minutes before the clock
TripsInWindow ==
    Cardinality({i \in 1..Len(trips) : now - trips[i] <= TRIP_TTL_MS})

\* C22, as claimed: a solve that starts after k traps have fired within ten
\* minutes, their records having been written, runs at the difficulty
\* base + k * honeypotPenalty, or at maxPenaltyDiff when that is lower.
C22_ViolationsStack ==
    [][(ev'.op \in {"solve", "retry"} /\ ~fail.lset) =>
          gate'.difficulty =
              IF gate'.cfg.difficulty
                     + TripsInWindow * gate'.cfg.honeypotPenalty
                 <= gate'.cfg.maxPenaltyDiff
              THEN gate'.cfg.difficulty
                       + TripsInWindow * gate'.cfg.honeypotPenalty
              ELSE gate'.cfg.maxPenaltyDiff]_vars



\* The text s holds the text part
Holds(s, part) ==
    \E i \in 1..(Len(s) - Len(part) + 1) :
        SubSeq(s, i, i + Len(part) - 1) = part

\* The navigation u is the engine's: a URL carrying hp=1 and a reason code
EngineUrl(u) ==
    /\ u.k = "url"
    /\ Holds(u.s, <<"h", "p", "=", "1", "&", "r", "e", "a", "s", "o", "n",
                    "=">>)

\* C32, as claimed: once a trap has fired on a page, the last navigation
\* issued is the engine's gate URL, with hp=1 and the reason code, for as
\* long as the page lives: the redirect the guard had scheduled does not
\* replace it.
C32_TripOverridesGuard ==
    [][(EngineUrl(navigated) /\ ev'.op # "load") =>
           EngineUrl(navigated')]_vars


----------------------------------------------------------------------------
(* SpecWrites: several traps fire on one page while the backends come and
   go *)

InitWrites == InitWith(DefaultInjected, EmptyStorage, EmptyStorage, NoFailure)

NextWrites ==
    \/ RuntimeStart
    \/ engine.gen = 0 /\ InitRuntime
    \/ TrapEvent(1, HoneypotInput)
    \/ TrapEvent(1, DecoyClick)
    \/ \E c \in {"lset", "sset"} : BackendsChange(c)
    \/ Tick(1)

SpecWrites == InitWrites /\ [][NextWrites]_vars

\* The backend b holds the record of the trip the step made, and its reason
TripWritten(b) ==
    /\ b["hp_tripped"].k = "json"
    /\ Prop(b["hp_tripped"].v, "reason") = JStr(ev'.reason)
    /\ Prop(b["hp_tripped"].v, "timestamp") = JNum(now)
    /\ Prop(b["hp_tripped"].v, "category") = JStr(ev'.category)
    /\ Prop(b["hp_tripped"].v, "event") = JStr(ev'.event)
    /\ b["hp_reason"] = PlainText(Prop(b["hp_tripped"].v, "reason").s)

\* C33: after every trip, each backend that accepts writes holds the record
\* of that trip, the most recent one, under hp_tripped, and its reason field
\* under hp_reason; the category of the record is decoy exactly when the
\* trip came from the click on a decoy link, and honeypot otherwise.
C33_TripWrites ==
    [][ev'.op = "trip" =>
          /\ ~fail.lset => TripWritten(ls')
          /\ ~fail.sset => TripWritten(ss')
          /\ ev'.category = DECOY <=> ev'.event = DecoyClick.detail
          /\ ev'.category # DECOY => ev'.category = HONEYPOT
          /\ ev'.reason = buildReason(rtCfg, engine.timeBucket,
                                      ev'.category, ev'.event,
                                      IF ev'.category = DECOY
                                      THEN DecoyClick.extra
                                      ELSE HoneypotInput.extra)]_vars

\* A second trap has fired, the decoy link after the hidden field, localStorage
\* refusing the write by then: it keeps the first record, sessionStorage
\* holds the second
C33_Witness ==
    /\ ev.op = "trip"
    /\ Len(trips) = 2
    /\ trips[1] < trips[2]
    /\ ev.category = DECOY
    /\ fail.lset /\ ~fail.sset
    /\ ls["hp_tripped"].k = "json"
    /\ Prop(ls["hp_tripped"].v, "category") = JStr(HONEYPOT)
    /\ Prop(ss["hp_tripped"].v, "category") = JStr(DECOY)
    /\ ss["hp_reason"] = PlainText(ev.reason)


----------------------------------------------------------------------------
(* SpecGrammar: the reason codes of the traps under raw namespaces and
   prefixes *)

\* Raw values of shieldNamespace, honeypotPrefix and decoyPrefix: plain, with
\* an upper case letter and a dash, blank, made of a disallowed character,
\* with disallowed characters around an underscore, and not a string
NameValues ==
    {JStr(<<"a">>), JStr(<<"Z", "-">>), JStr(<<" ">>), JStr(<<"!">>),
     JStr(<<"/", "_", "!">>), Undefined}

InitGrammar ==
    \E ns \in NameValues, hp \in NameValues, dc \in NameValues :
        InitWith(JObj([gatePath |-> JStr(DEFAULT_GATE_PATH),
                       autoHideRoot |-> JBool(TRUE),
                       shieldNamespace |-> ns, honeypotPrefix |-> hp,
                       decoyPrefix |-> dc]),
                 EmptyStorage, EmptyStorage, NoFailure)

NextGrammar ==
    \/ RuntimeStart
    \/ engine.gen = 0 /\ InitRuntime
    \/ TrapEvent(1, HoneypotInput)
    \/ TrapEvent(1, DecoyClick)
    \/ Tick(TRIP_TTL_MS)

SpecGrammar == InitGrammar /\ [][NextGrammar]_vars

\* The text r is head followed by eight characters of 0-9 and a-z
HeadAndHash(r, head) ==
    /\ Len(r) = Len(head) + 8
    /\ SubSeq(r, 1, Len(head)) = head
    /\ \A i \in (Len(head) + 1)..Len(r) : r[i] \in Digit \cup Lower

\* C34: the reason of every trip is <namespace>_<prefix>_<hash8> when the
\* prefix of the trap type is not empty and <namespace>_<hash8> when it is,
\* the prefix being the decoy prefix for the type decoy and the honeypot
\* prefix otherwise; every character of it is one of a-z, 0-9, "_" and "-",
\* and the gate URL carries it as it is.
C34_ReasonGrammar ==
    [][ev'.op = "trip" =>
          LET prefix == IF ev'.category = DECOY THEN rtCfg.decoyPrefix
                        ELSE rtCfg.honeypotPrefix
          IN /\ HeadAndHash(ev'.reason,
                            rtCfg.shieldNamespace \o <<"_">>
                            \o (IF prefix # <<>> THEN prefix \o <<"_">>
                                ELSE <<>>))
             /\ \A i \in 1..Len(ev'.reason) :
                    ev'.reason[i] \in Lower \cup Digit \cup {"_", "-"}
             /\ ev'.reason # <<>>
             /\ encodeURIComponent(ev'.reason) = ev'.reason
             /\ Holds(navigated'.s,
                      <<"&", "r", "e", "a", "s", "o", "n", "=">>
                      \o ev'.reason \o <<"&", "n", "e", "x", "t", "=">>)]_vars

\* The decoy link has fired, after another trap, under the namespace "_", an
\* empty honeypot prefix and the decoy prefix z-
C34_Witness ==
    /\ ev.op = "trip"
    /\ rtCfg.honeypotPrefix = <<>>
    /\ rtCfg.decoyPrefix = <<"z", "-">>
    /\ rtCfg.shieldNamespace = <<"_">>
    /\ ev.category = DECOY
    /\ Len(ev.reason) = 13
    /\ Len(trips) = 2

----------------------------------------------------------------------------
(* SpecFlags: the trap switches of the shield options, from the build to the
   listeners *)

FlagNames == {"enableHoneypots", "enableInputHoneypots", "enableLinkDecoys"}

\* shield: { enableHoneypots, enableInputHoneypots, enableLinkDecoys }, a
\* switch being left out when it is not in `given`
FlagShield(given, on) ==
    JObj([n \in given |-> JBool(n \in on)])

InitFlags == InitWith(DefaultInjected, EmptyStorage, EmptyStorage, NoFailure)

NextFlags ==
    \/ \E given \in {{}, FlagNames}, on \in SUBSET FlagNames :
           on \subseteq given /\ AstroShield(Undefined, FlagShield(given, on))
    \/ RuntimeStart
    \/ engine.gen = 0 /\ InitRuntime
    \/ TrapEvent(1, HoneypotInput)
    \/ TrapEvent(1, DecoyClick)
    \/ Pointer(1)
    \/ IdleExpire(1)
    \/ \E d \in IdleWaits : Wait(d, MaxIdleSpan)

SpecFlags == InitFlags /\ [][NextFlags]_vars

\* The switch as the page received it: on unless it was set to false
SwitchOn(name) == Prop(windowConfig, name) # JBool(FALSE)

\* C23, as claimed: no trap fires with enableHoneypots false, no trap of a
\* hidden form field fires with enableInputHoneypots false, and no decoy link
\* fires with enableLinkDecoys false.
C23_FlagsHonoured ==
    [][ev'.op = "trip" =>
          /\ SwitchOn("enableHoneypots")
          /\ ev'.event = HoneypotInput.detail
                 => SwitchOn("enableInputHoneypots")
          /\ ev'.category = DECOY => SwitchOn("enableLinkDecoys")]_vars

----------------------------------------------------------------------------
(* SpecSchedule: gate checks and the callback of the redirect scheduler *)

ScheduleLocations ==
    {Loc(P_PAGE, <<>>), Loc(P_PAGE, <<"?", "q">>), Loc(P_GATE, <<>>)}

InitSchedule ==
    \E tok \in {Null, GoodToken}, trap \in {Null, TenMinutes, Fresh} :
        InitWith(DefaultInjected,
                 [EmptyStorage EXCEPT ![TOKEN_KEY] = tok,
                                      !["hp_tripped"] = trap],
                 EmptyStorage, NoFailure)

NextSchedule ==
    \/ \E p \in ScheduleLocations : PageLoad(p)
    \/ GateCheck
    \/ \E p \in ScheduleLocations : AfterSwap(p)
    \/ \E d \in ClockSteps : Tick(d)
    \/ \E threw \in BOOLEAN : timerFire(threw)

\* The event loop runs a callback whose 50 ms delay has passed.
SpecSchedule ==
    /\ InitSchedule
    /\ [][NextSchedule]_vars
    /\ WF_vars(\E threw \in BOOLEAN : timerFire(threw))

\* The gate check of the step requests a redirect
RedirectRequested ==
    /\ GateStep
    /\ ~ev'.threw
    /\ ~PathExempt(loc'.pathname, initCfg'.gatePath)
    /\ ~(TokenValid /\ ~TrapActive)

\* C35: a callback of the scheduler is pending exactly while
\* redirectScheduled holds, so never more than one; a gate check that
\* requests a redirect makes its URL the target whether or not a callback
\* is pending; the callback calls location.replace with the target, the
\* last URL requested, and resets the scheduler even when location.replace
\* throws; and a pending callback eventually runs.
C35_Coalescing ==
    /\ [][/\ redirectTimers' = IF redirectScheduled' THEN 1 ELSE 0
          /\ RedirectRequested
             => redirectTarget' = buildGateRedirectUrl(initCfg'.gatePath, loc',
                                                       TrapActive)
          /\ ev'.op = "timer"
             => /\ ev'.replaced
                /\ ~ev'.threw => navigated' = redirectTarget
                /\ ~redirectScheduled'
                /\ redirectTarget' = Null
                /\ redirectTimers' = 0]_vars
    /\ (redirectTimers > 0) ~> (redirectTimers = 0)

\* A gate check has requested a redirect while a callback was pending: it
\* armed no second callback and its URL is the target.
C35_Witness ==
    /\ ev.op = "gate"
    /\ ~ev.armed
    /\ redirectScheduled
    /\ redirectTimers = 1
    /\ navigated = Null
    /\ loc = Loc(P_PAGE, <<"?", "q">>)
    /\ ls[TOKEN_KEY] = Null
    /\ redirectTarget = buildGateRedirectUrl(initCfg.gatePath, loc, FALSE)

\* The gate check of the step found a valid token and no active trap on a
\* page that is not exempt
CheckPassed ==
    /\ GateStep
    /\ ~ev'.threw
    /\ ~PathExempt(loc'.pathname, initCfg'.gatePath)
    /\ TokenValid
    /\ ~TrapActive

\* C37, as claimed: a gate check that finds a valid token and no active trap
\* makes the root visible and leaves no redirect of the guard pending, so
\* none fires until a later gate check fails.
C37_PassingFinal ==
    [][CheckPassed
          => /\ visibility' = "visible"
             /\ ~redirectScheduled'
             /\ redirectTimers' = 0]_vars

----------------------------------------------------------------------------
(* SpecLoop: the visitor follows the redirects of the page guard, over gate
   paths with a query string and with a trailing slash *)

G_SLASH == <<"/", "g", "/">>

MaxUrlLen == 30

InitLoop ==
    \E gatePath \in {DEFAULT_GATE_PATH, G_QUERY, G_SLASH},
       token \in {Null, GoodToken}, trap \in {Null, Fresh} :
        InitWith(JObj([gatePath |-> JStr(gatePath),
                       autoHideRoot |-> JBool(TRUE)]),
                 [EmptyStorage EXCEPT ![TOKEN_KEY] = token,
                                      !["hp_tripped"] = trap],
                 EmptyStorage, NoFailure)

NextLoop ==
    \/ \E q \in {<<>>, Q_PAGE} : PageLoad(Loc(P_PAGE, q))
    \/ GateCheck
    \/ TimerFire
    \/ navigated.k = "url" /\ Len(navigated.s) <= MaxUrlLen /\ Follow

SpecLoop == InitLoop /\ [][NextLoop]_vars

\* The visitor is on the page the gate path names
OnGatePage == loc.pathname = parseUrl(initCfg.gatePath).pathname

\* C36, as claimed: whatever the gate path, the token and the traps, a gate
\* check on the gate page makes the root visible and schedules no redirect.
C36_NoGateLoop ==
    [][(GateStep /\ OnGatePage')
          => visibility' = "visible" /\ ~redirectScheduled']_vars

----------------------------------------------------------------------------
(* SpecSticky: page loads of a site that is built again with other options
   between them, over backends that start and stop throwing *)

\* A later build of the site: "astro:config:setup" injects the configuration
\* of the new options into every page served from then on.
Redeploy(gatePath, shield) ==
    /\ ~IsThrown(resolveOptions(gatePath, shield).gatePath)
    /\ injected' = configScript(buildRuntimeConfig(
                       resolveOptions(gatePath, shield)))
    /\ ev' = [op |-> "build", gatePath |-> gatePath, threw |-> FALSE]
    /\ UNCHANGED <<gate, engine, lastTrip, trips, windowConfig,
                   initCfg, rtCfg, ls, ss, fail, now, loc,
                   visibility, redirectScheduled, redirectTarget,
                   redirectTimers, navigated>>

DeployPaths == {JStr(<<"/", "x">>), JStr(<<"y", " ">>)}
DeployShields == {JObj(NoProps), ShieldOf(JStr(<<"B", " ">>))}

InitSticky == InitWith(DefaultInjected, EmptyStorage, EmptyStorage, NoFailure)

NextSticky ==
    \/ \E gatePath \in DeployPaths, shield \in DeployShields :
           Redeploy(gatePath, shield)
    \/ PageLoad(Loc(P_PAGE, <<>>))
    \/ \E c \in {"lget", "sget", "lset", "sset"} : BackendsChange(c)

SpecSticky == InitSticky /\ [][NextSticky]_vars

\* The four values the init script of the loaded page resolved, as
\* JSON.stringify writes them
ResolvedFour == JSONstringify(overridesOf(initCfg))

\* Backend b holds an overrides record
Persisted(b) == b[CONFIG_STORAGE_KEY].k = "json"

\* C40, as claimed: once a backend holds the overrides record, every load
\* resolves the four values of a stored record whatever configuration is
\* injected, and leaves that record in both backends.
C40_AsClaimed ==
    [][(ev'.op = "load" /\ (Persisted(ls) \/ Persisted(ss)))
          => /\ ResolvedFour' \in {ls[CONFIG_STORAGE_KEY],
                                   ss[CONFIG_STORAGE_KEY]}
             /\ ls'[CONFIG_STORAGE_KEY] = ResolvedFour'
             /\ ss'[CONFIG_STORAGE_KEY] = ResolvedFour']_vars

\* The overrides record a load reads: localStorage's unless its getItem
\* throws or it holds none, otherwise sessionStorage's
StoredRead ==
    IF ~fail.lget /\ Persisted(ls) THEN ls[CONFIG_STORAGE_KEY]
    ELSE IF ~fail.sget /\ Persisted(ss) THEN ss[CONFIG_STORAGE_KEY]
    ELSE Null

\* C40, amended: a load that reads an overrides record resolves the four
\* values of that record whatever configuration is injected, and writes
\* the same four values to every backend whose setItem works, a backend
\* whose setItem throws keeping what it held.
C40_StickyOverrides ==
    [][(ev'.op = "load" /\ StoredRead # Null)
          => /\ ResolvedFour' = StoredRead
             /\ ls'[CONFIG_STORAGE_KEY]
                    = IF fail.lset THEN ls[CONFIG_STORAGE_KEY] ELSE StoredRead
             /\ ss'[CONFIG_STORAGE_KEY]
                    = IF fail.sset THEN ss[CONFIG_STORAGE_KEY] ELSE StoredRead
      ]_vars

\* The site has been built again with another gate path and other names,
\* and a load of the new build has resolved the values of the record an
\* earlier load had stored.
C40_Witness ==
    /\ ev.op = "load"
    /\ fail = NoFailure
    /\ Prop(injected, "gatePath") = JStr(<<"/", "x">>)
    /\ Prop(injected, "shieldNamespace") = JStr(<<"B", " ">>)
    /\ initCfg.gatePath = DEFAULT_GATE_PATH
    /\ initCfg.shieldNamespace = DEFAULT_NAMESPACE
    /\ ls[CONFIG_STORAGE_KEY] = ResolvedFour
    /\ ss[CONFIG_STORAGE_KEY] = ResolvedFour

=============================================================================
